---- MODULE Spec2Model ----
(***************************************************************************)
(* Verification model of the local runtime gateway                         *)
(* (services/local-runtime-suite/python/local_runtime).                    *)
(*                                                                         *)
(*   SpecLoad       ModelRegistry (instance cache, load/warmup hooks) and  *)
(*                  ModelLoadManager (load jobs) racing with requests,     *)
(*                  under the asyncio event loop: one action per stretch   *)
(*                  of code between two suspension points.                 *)
(*   SpecCalls      one caller's preload_model and ensure_instance calls,  *)
(*                  one after the other, beside a request's own.           *)
(*   SpecPoll       load jobs observed through wait_for_job and get_job.   *)
(*   SpecJobs       load jobs alone; FairSpecJobs adds weak fairness on    *)
(*                  the steps the event loop and terminating hooks         *)
(*                  guarantee.                                             *)
(*   SpecTracker    ReadinessTracker driven by any caller.                 *)
(*   SpecBoot       lifespan(): the boot sequence with its startup hooks,  *)
(*                  preload job and self-test, and the shutdown.           *)
(*   SpecResponses  POST /v1/responses with StructuredOutputEnforcer and   *)
(*                  the structured-output helpers; texts are sequences of  *)
(*                  characters, JSON values are tagged records.            *)
(*   SpecSchemas    make_openai_strict_schema, validate_against_schema     *)
(*                  and the array trimmer called on their own.             *)
(*   SpecSelect     SelectionStrategy.select and compute_defaults over     *)
(*                  any catalog and platform; ModelSpec validation.        *)
(*   SpecSelfTest   run_startup_self_test against backends that return     *)
(*                  anything or raise.                                     *)
(***************************************************************************)
EXTENDS Integers, Sequences, FiniteSets, TLC

\* ------------------------------------------------------------------------
\* Bounds
\* ------------------------------------------------------------------------
MaxJobs == 1
MaxReqs == 1

\* ------------------------------------------------------------------------
\* ModelRegistry: catalog and lifecycle hooks
\* ------------------------------------------------------------------------
\* Model ids a caller may name.
ModelIds == {"a", "b"}

\* What the registry holds for a model id: both hooks, a load hook only,
\* no load hook (stateless/proxy backend), or nothing at all (unknown id).
HookKinds == {"load_warmup", "load_only", "no_load", "unregistered"}

\* The catalogs the registry is built from at boot.
Catalogs ==
    { [a |-> "load_warmup", b |-> "load_only"],
      [a |-> "load_only", b |-> "no_load"],
      [a |-> "load_warmup", b |-> "unregistered"],
      [a |-> "unregistered", b |-> "unregistered"] }

\* Target lists handed to create_job (raw, before dedupe).
JobInputs == {<<"a">>, <<"a", "b">>, <<"b", "a">>, <<"b", "b">>, <<"a", "b", "a">>}

VARIABLES
    hooks,            \* ModelRegistry._models_by_id / _hooks: model id -> HookKinds
    model_instances,  \* ModelRegistry.model_instances: model id -> handle, 0 = absent
    loadCalls,        \* number of invocations of each model's load hook
    nextHandle,       \* next fresh instance handle a load hook returns
    jobs,             \* ModelLoadManager.jobs: sequence of ModelLoadJob, index = job id
    jobInput,         \* the raw id list each job was created from
    loadTasks,        \* per job: the _load_single tasks _run_job created
    reqs,             \* per request: its ensure_instance call
    waiters,          \* per job id: the wait_for_job call on it
    lastGet,          \* what the last get_job call returned
    loaded_models,    \* ReadinessTracker.loaded_models
    readiness,        \* the ReadinessTracker: status, startup_checks, self_test, last_error
    boot,             \* lifespan(): where the boot sequence stands
    resp,             \* the POST /v1/responses request being served
    schemaCall,       \* a caller of the schema helpers: rewrite, validate, trim
    selectCall,       \* a caller of SelectionStrategy: select, compute_defaults
    selfTest,         \* a call of run_startup_self_test on the tracker
    errorCall,        \* a call of format_error
    registryCall      \* a caller of the registry: preload_model, ensure_instance

loadVars == <<hooks, model_instances, loadCalls, nextHandle, jobs,
              jobInput, loadTasks, reqs, waiters, lastGet, loaded_models>>

bootVars == <<readiness, boot>>

respVars == <<resp>>

\* Direct calls of the library functions.
callVars == <<schemaCall, selectCall, selfTest, errorCall, registryCall>>

vars == <<loadVars, bootVars, respVars, callVars>>

\* What the registry and the load manager never touch.
nonLoadVars == <<bootVars, respVars, callVars>>

\* What the readiness tracker's methods never touch.
nonTrackerVars == <<loadVars, boot, respVars, callVars>>

JobIds == 1..MaxJobs

\* JSON null, also standing for Python's None.
JNull == [t |-> "null"]

\* An optional key of a request payload: present with a value, or absent.
NotSet == [set |-> FALSE, v |-> 0]
Val(n) == [set |-> TRUE, v |-> n]

NoError == [reason |-> "", violations |-> <<>>]
NoResult == [canonical_text |-> <<>>, parsed |-> JNull, attempts |-> 0]
NoResponse == [status |-> 0, err_type |-> "", message |-> NoError, media |-> "", text |-> <<>>]

\* No request is being served.
RespIdle ==
    [pc |-> "idle", stream |-> FALSE, temperature |-> NotSet, top_p |-> NotSet,
     config |-> [schema |-> JNull, effective_schema |-> JNull, strict |-> FALSE],
     attempt |-> 0, retry_messages |-> <<>>, last_error |-> NoError,
     sent |-> <<>>, outputs |-> <<>>, result |-> NoResult, raised |-> "",
     http |-> NoResponse,
     events |-> <<>>,            \* the events the streaming answer carries
     frames |-> <<>>,            \* the SSE frames written for those events
     requested |-> "None",       \* payload.get("model")
     format |-> [kind |-> "none", schema |-> JNull, strict |-> NotSet],  \* payload.text.format
     model_id |-> "None"]        \* selected.spec.id

\* No library function is being called directly.
SchemaIdle ==
    [pc |-> "idle", schema |-> JNull, effective |-> JNull, payload |-> JNull,
     violations |-> <<>>, trimmed |-> JNull, changed |-> FALSE,
     text |-> <<>>, repaired |-> [ok |-> FALSE, text |-> <<>>]]   \* _autoclose_json(text)

\* No model: what a select() that raised leaves its caller with.
NoModel ==
    [id |-> "None", alias |-> "None", endpoint |-> "", platforms |-> {}, priority |-> 0,
     provider |-> "", mode |-> ""]

SelectIdle ==
    [pc |-> "idle", platform_id |-> "", models |-> <<>>, endpoint |-> "", requested |-> "None",
     outcome |-> "", model |-> NoModel, defaults |-> <<>>,
     mode |-> "", launch |-> "None"]    \* a spec handed to ModelSpec.model_validate

SelfTestIdle ==
    [pc |-> "idle", strict |-> FALSE, defaults |-> <<>>, plan |-> <<>>, idx |-> 0,
     failed |-> FALSE, raised |-> "",
     status_before |-> ""]       \* history: the tracker's status when the run began

ErrorIdle == [pc |-> "idle", err_type |-> "", status_code |-> NotSet, http |-> NoResponse]

\* The registry's caller is between two calls; log holds its finished calls.
RegistryIdle ==
    [pc |-> "idle", op |-> "", model |-> "", loads |-> 0, warmups |-> 0, instance |-> 0,
     before |-> <<>>, log |-> <<>>]

NoCalls ==
    /\ schemaCall = SchemaIdle
    /\ selectCall = SelectIdle
    /\ selfTest = SelfTestIdle
    /\ errorCall = ErrorIdle
    /\ registryCall = RegistryIdle

ReqIds == 1..MaxReqs

IsRegistered(m) == hooks[m] # "unregistered"
HasLoad(m) == hooks[m] \in {"load_warmup", "load_only"}
HasWarmup(m) == hooks[m] = "load_warmup"
IsCached(m) == model_instances[m] # 0

\* list(dict.fromkeys(models)): drop repeats, keep first-seen order.
RECURSIVE DedupeFrom(_, _, _)
DedupeFrom(ids, i, acc) ==
    IF i > Len(ids) THEN acc
    ELSE IF \E k \in 1..Len(acc) : acc[k] = ids[i]
         THEN DedupeFrom(ids, i + 1, acc)
         ELSE DedupeFrom(ids, i + 1, Append(acc, ids[i]))

DedupeKeepAll(ids) == ids

Dedupe(ids) == DedupeFrom(ids, 1, <<>>)

\* sorted(registry.model_instances.keys()) for the two-letter id alphabet.
SortedKeys(inst) ==
    (IF inst["a"] # 0 THEN <<"a">> ELSE <<>>) \o (IF inst["b"] # 0 THEN <<"b">> ELSE <<>>)

TerminalModelStatus == {"loaded", "skipped", "error"}
TerminalJobStatus == {"completed", "failed"}

LoadInit ==
    /\ hooks \in Catalogs
    /\ model_instances = [m \in ModelIds |-> 0]
    /\ loadCalls = [m \in ModelIds |-> 0]
    /\ nextHandle = 1
    /\ jobs = <<>>
    /\ jobInput = <<>>
    /\ loadTasks = <<>>
    /\ reqs = [r \in ReqIds |-> [pc |-> "idle", model |-> "a", result |-> "none", handle |-> 0]]
    /\ waiters = [j \in JobIds |-> "idle"]
    /\ lastGet = [id |-> 0, found |-> FALSE, status |-> "none"]
    /\ loaded_models = <<>>

\* ------------------------------------------------------------------------
\* ModelLoadManager
\* ------------------------------------------------------------------------
\* create_job: dedupe, allocate the job, one pending ModelStatus per distinct
\* id, schedule the _run_job task (it has not run yet when create_job returns).
create_job(ids) ==
    /\ Len(jobs) < MaxJobs
    /\ LET deduped == Dedupe(ids)
           job == [status |-> "pending",
                   models |-> deduped,
                   statuses |-> [m \in {deduped[k] : k \in 1..Len(deduped)} |-> "pending"],
                   task |-> "scheduled"]
       IN /\ jobs' = Append(jobs, job)
          /\ jobInput' = Append(jobInput, ids)
          /\ loadTasks' = Append(loadTasks, <<>>)
    /\ UNCHANGED <<hooks, model_instances, loadCalls, nextHandle,
                   reqs, waiters, lastGet, loaded_models>>

\* create_job called by anyone but the boot sequence (POST /load_models).
create_job_call(ids) ==
    /\ create_job(ids)
    /\ UNCHANGED nonLoadVars

\* _run_job up to `await asyncio.gather(*tasks)`: mark running and create one
\* _load_single task per entry of job.models.
run_job_start(j) ==
    /\ j \in DOMAIN jobs
    /\ jobs[j].task = "scheduled"
    /\ jobs' = [jobs EXCEPT ![j].status = "running", ![j].task = "gathering"]
    /\ loadTasks' = [loadTasks EXCEPT ![j] =
            [k \in 1..Len(jobs[j].models) |-> [model |-> jobs[j].models[k], pc |-> "scheduled", raised |-> "none",
                                             instance |-> 0]]]    \* _preload_model's local `instance`
    /\ UNCHANGED <<hooks, model_instances, loadCalls, nextHandle,
                   jobInput, reqs, waiters, lastGet, loaded_models>>
    /\ UNCHANGED nonLoadVars

SetTask(j, k, pc) == [loadTasks EXCEPT ![j][k].pc = pc]
SetRaised(j, k, hook) == [loadTasks EXCEPT ![j][k].pc = "done", ![j][k].raised = hook]
\* A status assignment that rebuilds the job's statuses dict around the
\* one entry it sets.
SetStatusRebuilt(j, m, st) ==
    [jobs EXCEPT ![j].statuses = [x \in DOMAIN @ |-> IF x = m THEN st ELSE "pending"]]

\* status.status = st, on the ModelStatus of model m in job j.
SetStatus(j, m, st) == [jobs EXCEPT ![j].statuses[m] = st]

\* _load_single from its start to the first suspension: status loading, then
\* _preload_model's checks.  Without a hook to await, the whole task runs in
\* this one step.
load_single_start(j, k) ==
    /\ j \in DOMAIN jobs
    /\ k \in DOMAIN loadTasks[j]
    /\ loadTasks[j][k].pc = "scheduled"
    /\ LET m == loadTasks[j][k].model IN
       IF ~IsRegistered(m) THEN
            /\ jobs' = SetStatus(j, m, "skipped")
            /\ loadTasks' = SetTask(j, k, "done")
            /\ UNCHANGED loadCalls
       ELSE IF IsCached(m) THEN
            /\ jobs' = SetStatus(j, m, "loaded")
            /\ loadTasks' = SetTask(j, k, "done")
            /\ UNCHANGED loadCalls
       ELSE IF ~HasLoad(m) THEN
            /\ jobs' = SetStatus(j, m, "skipped")
            /\ loadTasks' = SetTask(j, k, "done")
            /\ UNCHANGED loadCalls
       ELSE
            /\ jobs' = SetStatus(j, m, "loading")
            /\ loadTasks' = SetTask(j, k, "in_load")
            /\ loadCalls' = [loadCalls EXCEPT ![m] = @ + 1]
    /\ UNCHANGED <<hooks, model_instances, nextHandle, jobInput,
                   reqs, waiters, lastGet, loaded_models>>
    /\ UNCHANGED nonLoadVars

\* The load hook returned: cache the instance, then either call warmup
\* (next suspension) or return True to _load_single.
preload_load_returns(j, k) ==
    /\ j \in DOMAIN jobs
    /\ k \in DOMAIN loadTasks[j]
    /\ loadTasks[j][k].pc = "in_load"
    /\ LET m == loadTasks[j][k].model IN
       /\ model_instances' = [model_instances EXCEPT ![m] = nextHandle]
       /\ nextHandle' = nextHandle + 1
       /\ IF HasWarmup(m)
          THEN /\ loadTasks' = [loadTasks EXCEPT ![j][k].pc = "in_warmup",
                                                 ![j][k].instance = nextHandle]
               /\ UNCHANGED jobs
          ELSE /\ loadTasks' = [loadTasks EXCEPT ![j][k].pc = "done",
                                                 ![j][k].instance = nextHandle]
               /\ jobs' = SetStatus(j, m, "loaded")
    /\ UNCHANGED <<hooks, loadCalls, jobInput, reqs, waiters, lastGet, loaded_models>>
    /\ UNCHANGED nonLoadVars

\* A _preload_model that catches the load hook's exception and goes on to
\* warmup all the same.
preload_load_raises_warms(j, k) ==
    /\ j \in DOMAIN jobs
    /\ k \in DOMAIN loadTasks[j]
    /\ loadTasks[j][k].pc = "in_load"
    /\ loadTasks' = [loadTasks EXCEPT ![j][k].pc = "in_warmup", ![j][k].raised = "load"]
    /\ UNCHANGED <<hooks, model_instances, loadCalls, nextHandle, jobs,
                   jobInput, reqs, waiters, lastGet, loaded_models>>
    /\ UNCHANGED nonLoadVars

\* The load hook raised: _preload_model logs and returns False, which
\* _load_single records as skipped.
preload_load_raises(j, k) ==
    /\ j \in DOMAIN jobs
    /\ k \in DOMAIN loadTasks[j]
    /\ loadTasks[j][k].pc = "in_load"
    /\ jobs' = SetStatus(j, loadTasks[j][k].model, "skipped")
    /\ loadTasks' = SetRaised(j, k, "load")
    /\ UNCHANGED <<hooks, model_instances, loadCalls, nextHandle,
                   jobInput, reqs, waiters, lastGet, loaded_models>>
    /\ UNCHANGED nonLoadVars

\* The warmup hook returned: _preload_model returns True.
preload_warmup_returns(j, k) ==
    /\ j \in DOMAIN jobs
    /\ k \in DOMAIN loadTasks[j]
    /\ loadTasks[j][k].pc = "in_warmup"
    /\ jobs' = SetStatus(j, loadTasks[j][k].model, "loaded")
    /\ loadTasks' = SetTask(j, k, "done")
    /\ UNCHANGED <<hooks, model_instances, loadCalls, nextHandle,
                   jobInput, reqs, waiters, lastGet, loaded_models>>
    /\ UNCHANGED nonLoadVars

preload_warmup_escapes(j, k) ==
    /\ j \in DOMAIN jobs
    /\ k \in DOMAIN loadTasks[j]
    /\ loadTasks[j][k].pc = "in_warmup"
    /\ jobs' = [jobs EXCEPT ![j].task = "crashed"]
    /\ loadTasks' = SetRaised(j, k, "warmup")
    /\ UNCHANGED <<hooks, model_instances, loadCalls, nextHandle,
                   jobInput, reqs, waiters, lastGet, loaded_models>>
    /\ UNCHANGED nonLoadVars

\* The warmup hook raised: the exception leaves _preload_model and is caught
\* by _load_single's `except Exception`.
preload_warmup_raises(j, k) ==
    /\ j \in DOMAIN jobs
    /\ k \in DOMAIN loadTasks[j]
    /\ loadTasks[j][k].pc = "in_warmup"
    /\ jobs' = SetStatus(j, loadTasks[j][k].model, "error")
    /\ loadTasks' = SetRaised(j, k, "warmup")
    /\ UNCHANGED <<hooks, model_instances, loadCalls, nextHandle,
                   jobInput, reqs, waiters, lastGet, loaded_models>>
    /\ UNCHANGED nonLoadVars

\* asyncio.gather(*tasks) resumes _run_job once every task has finished.
GatherFirstDone(j) == \E k \in DOMAIN loadTasks[j] : loadTasks[j][k].pc = "done"

GatherDone(j) == \A k \in DOMAIN loadTasks[j] : loadTasks[j][k].pc = "done"

\* _run_job after the gather: aggregate status, readiness.loaded_models.
run_job_finish(j) ==
    /\ j \in DOMAIN jobs
    /\ jobs[j].task = "gathering"
    /\ GatherDone(j)
    /\ jobs' = [jobs EXCEPT
            ![j].status = IF \E m \in DOMAIN jobs[j].statuses : jobs[j].statuses[m] = "error"
                          THEN "failed" ELSE "completed",
            ![j].task = "done"]
    /\ loaded_models' = SortedKeys(model_instances)
    /\ UNCHANGED <<hooks, model_instances, loadCalls, nextHandle,
                   jobInput, loadTasks, reqs, waiters, lastGet>>
    /\ UNCHANGED nonLoadVars

\* wait_for_job: jobs[job_id] (KeyError for an unknown id), then await job.task.
wait_for_job_call(j) ==
    /\ waiters[j] = "idle"
    /\ waiters' = [waiters EXCEPT ![j] = IF j \in DOMAIN jobs THEN "waiting" ELSE "KeyError"]
    /\ UNCHANGED <<hooks, model_instances, loadCalls, nextHandle, jobs,
                   jobInput, loadTasks, reqs, lastGet, loaded_models>>
    /\ UNCHANGED nonLoadVars

\* `await job.task` resumes the caller when the _run_job task has finished.
TaskAwaitableStarted(j) == jobs[j].task # "scheduled"

TaskAwaitable(j) == jobs[j].task = "done"

wait_for_job_returns(j) ==
    /\ waiters[j] = "waiting"
    /\ TaskAwaitable(j)
    /\ waiters' = [waiters EXCEPT ![j] = "returned"]
    /\ UNCHANGED <<hooks, model_instances, loadCalls, nextHandle, jobs,
                   jobInput, loadTasks, reqs, lastGet, loaded_models>>
    /\ UNCHANGED nonLoadVars

\* get_job: self.jobs.get(job_id), the job as it is now or None.
JobSnapshot(j) ==
    IF j \in DOMAIN jobs
    THEN [id |-> j, found |-> TRUE, status |-> jobs[j].status]
    ELSE [id |-> j, found |-> FALSE, status |-> "none"]

get_job(j) ==
    /\ lastGet' = JobSnapshot(j)
    /\ UNCHANGED <<hooks, model_instances, loadCalls, nextHandle, jobs,
                   jobInput, loadTasks, reqs, waiters, loaded_models>>
    /\ UNCHANGED nonLoadVars

\* ------------------------------------------------------------------------
\* ModelRegistry.ensure_instance, called by a backend's run() for a request
\* ------------------------------------------------------------------------
\* From the call to the first suspension (the load hook), or to the return
\* when nothing has to be awaited.
ensure_instance_call(r, m) ==
    /\ reqs[r].pc = "idle"
    /\ IF IsCached(m) THEN
            /\ reqs' = [reqs EXCEPT ![r] = [pc |-> "done", model |-> m,
                                            result |-> "instance", handle |-> model_instances[m]]]
            /\ UNCHANGED loadCalls
       ELSE IF ~IsRegistered(m) THEN
            /\ reqs' = [reqs EXCEPT ![r] = [pc |-> "done", model |-> m,
                                            result |-> "KeyError", handle |-> 0]]
            /\ UNCHANGED loadCalls
       ELSE IF ~HasLoad(m) THEN
            /\ reqs' = [reqs EXCEPT ![r] = [pc |-> "done", model |-> m,
                                            result |-> "None", handle |-> 0]]
            /\ UNCHANGED loadCalls
       ELSE
            /\ reqs' = [reqs EXCEPT ![r] = [pc |-> "in_load", model |-> m,
                                            result |-> "none", handle |-> 0]]
            /\ loadCalls' = [loadCalls EXCEPT ![m] = @ + 1]
    /\ UNCHANGED <<hooks, model_instances, nextHandle, jobs, jobInput,
                   loadTasks, waiters, lastGet, loaded_models>>
    /\ UNCHANGED nonLoadVars

\* The load hook returned: cache the instance and return it.
ensure_load_returns(r) ==
    /\ reqs[r].pc = "in_load"
    /\ model_instances' = [model_instances EXCEPT ![reqs[r].model] = nextHandle]
    /\ nextHandle' = nextHandle + 1
    /\ reqs' = [reqs EXCEPT ![r].pc = "done", ![r].result = "instance", ![r].handle = nextHandle]
    /\ UNCHANGED <<hooks, loadCalls, jobs, jobInput, loadTasks,
                   waiters, lastGet, loaded_models>>
    /\ UNCHANGED nonLoadVars

\* The load hook raised: the exception leaves ensure_instance, nothing is cached.
ensure_load_raises(r) ==
    /\ reqs[r].pc = "in_load"
    /\ reqs' = [reqs EXCEPT ![r].pc = "done", ![r].result = "raised"]
    /\ UNCHANGED <<hooks, model_instances, loadCalls, nextHandle, jobs,
                   jobInput, loadTasks, waiters, lastGet, loaded_models>>
    /\ UNCHANGED nonLoadVars

\* ------------------------------------------------------------------------
\* The registry and load manager under the event loop
\* ------------------------------------------------------------------------
JobStep(j) ==
    \/ run_job_start(j)
    \/ run_job_finish(j)
    \/ \E k \in DOMAIN loadTasks[j] :
        \/ load_single_start(j, k)
        \/ preload_load_returns(j, k)
        \/ preload_load_raises(j, k)
        \/ preload_warmup_returns(j, k)
        \/ preload_warmup_raises(j, k)

JobSteps ==
    \/ \E j \in DOMAIN jobs : run_job_start(j)
    \/ \E j \in DOMAIN jobs : \E k \in DOMAIN loadTasks[j] : load_single_start(j, k)
    \/ \E j \in DOMAIN jobs : \E k \in DOMAIN loadTasks[j] : preload_load_returns(j, k)
    \/ \E j \in DOMAIN jobs : \E k \in DOMAIN loadTasks[j] : preload_load_raises(j, k)
    \/ \E j \in DOMAIN jobs : \E k \in DOMAIN loadTasks[j] : preload_warmup_returns(j, k)
    \/ \E j \in DOMAIN jobs : \E k \in DOMAIN loadTasks[j] : preload_warmup_raises(j, k)
    \/ \E j \in DOMAIN jobs : run_job_finish(j)

JobsNext ==
    \/ \E ids \in JobInputs : create_job_call(ids)
    \/ JobSteps

RequestsNext ==
    \/ \E r \in ReqIds, m \in ModelIds : ensure_instance_call(r, m)
    \/ \E r \in ReqIds : ensure_load_returns(r)
    \/ \E r \in ReqIds : ensure_load_raises(r)

PollNext ==
    \/ \E j \in JobIds : wait_for_job_call(j)
    \/ \E j \in JobIds : wait_for_job_returns(j)
    \/ \E j \in JobIds : get_job(j)

\* ------------------------------------------------------------------------
\* ModelRegistry.preload_model and ensure_instance called one after the other
\* by one caller, which keeps a log of how each call ended
\* ------------------------------------------------------------------------
\* Longest sequence of calls the caller makes.
MaxCalls == 2

\* A _preload_model that does not look into the instance cache.
preload_entry_reloads(m) ==
    IF ~IsRegistered(m) THEN "not_registered"
    ELSE IF ~HasLoad(m) THEN "no_load_hook"
    ELSE "load"

\* _preload_model up to its first await: the branch it takes.
preload_entry(m) ==
    IF ~IsRegistered(m) THEN "not_registered"
    ELSE IF IsCached(m) THEN "already_loaded"
    ELSE IF ~HasLoad(m) THEN "no_load_hook"
    ELSE "load"

\* An ensure_instance that takes a model without a load hook for an unknown
\* one.
ensure_entry_strict(m) ==
    IF IsCached(m) THEN "cached"
    ELSE IF ~IsRegistered(m) \/ ~HasLoad(m) THEN "KeyError"
    ELSE "load"

\* ensure_instance up to its first await: the branch it takes.
ensure_entry(m) ==
    IF IsCached(m) THEN "cached"
    ELSE IF ~IsRegistered(m) THEN "KeyError"
    ELSE IF ~HasLoad(m) THEN "None"
    ELSE "load"

\* The call returned or raised: it goes to the log with the cache as the
\* call found it and as it leaves it.
CallDone(c, result, handle, cache) ==
    [RegistryIdle EXCEPT !.log =
        Append(c.log, [op |-> c.op, model |-> c.model, result |-> result, handle |-> handle,
                       loads |-> c.loads, warmups |-> c.warmups,
                       before |-> c.before, after |-> cache])]

call_preload_model(m) ==
    /\ registryCall.pc = "idle"
    /\ Len(registryCall.log) < MaxCalls
    /\ LET c == [registryCall EXCEPT !.op = "preload_model", !.model = m,
                                     !.before = model_instances]
       IN IF preload_entry(m) = "load"
          THEN /\ registryCall' = [c EXCEPT !.pc = "in_load", !.loads = 1]
               /\ loadCalls' = [loadCalls EXCEPT ![m] = @ + 1]
          ELSE /\ registryCall' =
                    CallDone(c, IF preload_entry(m) = "already_loaded" THEN "True" ELSE "False",
                             0, model_instances)
               /\ UNCHANGED loadCalls
    /\ UNCHANGED <<hooks, model_instances, nextHandle, jobs, jobInput, loadTasks,
                   reqs, waiters, lastGet, loaded_models>>
    /\ UNCHANGED <<bootVars, respVars, schemaCall, selectCall, selfTest, errorCall>>

call_ensure_instance(m) ==
    /\ registryCall.pc = "idle"
    /\ Len(registryCall.log) < MaxCalls
    /\ LET c == [registryCall EXCEPT !.op = "ensure_instance", !.model = m,
                                     !.before = model_instances]
       IN IF ensure_entry(m) = "load"
          THEN /\ registryCall' = [c EXCEPT !.pc = "in_load", !.loads = 1]
               /\ loadCalls' = [loadCalls EXCEPT ![m] = @ + 1]
          ELSE /\ registryCall' =
                    CallDone(c, IF ensure_entry(m) = "cached" THEN "instance" ELSE ensure_entry(m),
                             model_instances[m], model_instances)
               /\ UNCHANGED loadCalls
    /\ UNCHANGED <<hooks, model_instances, nextHandle, jobs, jobInput, loadTasks,
                   reqs, waiters, lastGet, loaded_models>>
    /\ UNCHANGED <<bootVars, respVars, schemaCall, selectCall, selfTest, errorCall>>

\* The caller's load hook returned: the instance is cached; ensure_instance
\* returns it, _preload_model goes on to warmup with it or returns True.
registry_load_returns ==
    /\ registryCall.pc = "in_load"
    /\ model_instances' = [model_instances EXCEPT ![registryCall.model] = nextHandle]
    /\ nextHandle' = nextHandle + 1
    /\ registryCall' =
            IF registryCall.op = "ensure_instance"
            THEN CallDone(registryCall, "instance", nextHandle, model_instances')
            ELSE IF HasWarmup(registryCall.model)
            THEN [registryCall EXCEPT !.pc = "in_warmup", !.warmups = 1, !.instance = nextHandle]
            ELSE CallDone(registryCall, "True", 0, model_instances')
    /\ UNCHANGED <<hooks, loadCalls, jobs, jobInput, loadTasks,
                   reqs, waiters, lastGet, loaded_models>>
    /\ UNCHANGED <<bootVars, respVars, schemaCall, selectCall, selfTest, errorCall>>

\* The caller's load hook raised: ensure_instance lets the exception out,
\* _preload_model catches it and returns False.
registry_load_raises ==
    /\ registryCall.pc = "in_load"
    /\ registryCall' =
            CallDone(registryCall,
                     IF registryCall.op = "ensure_instance" THEN "raised" ELSE "False",
                     0, model_instances)
    /\ UNCHANGED loadVars
    /\ UNCHANGED <<bootVars, respVars, schemaCall, selectCall, selfTest, errorCall>>

\* The caller's warmup hook returned: _preload_model returns True.
registry_warmup_returns ==
    /\ registryCall.pc = "in_warmup"
    /\ registryCall' = CallDone(registryCall, "True", 0, model_instances)
    /\ UNCHANGED loadVars
    /\ UNCHANGED <<bootVars, respVars, schemaCall, selectCall, selfTest, errorCall>>

\* The caller's warmup hook raised: the exception leaves preload_model.
registry_warmup_raises ==
    /\ registryCall.pc = "in_warmup"
    /\ registryCall' = CallDone(registryCall, "raised", 0, model_instances)
    /\ UNCHANGED loadVars
    /\ UNCHANGED <<bootVars, respVars, schemaCall, selectCall, selfTest, errorCall>>

RegistryCallsNext ==
    \/ \E m \in ModelIds : call_preload_model(m)
    \/ \E m \in ModelIds : call_ensure_instance(m)
    \/ registry_load_returns
    \/ registry_load_raises
    \/ registry_warmup_returns
    \/ registry_warmup_raises

\* ------------------------------------------------------------------------
\* Properties of the registry and the load manager
\* ------------------------------------------------------------------------
\* No call of m's load hook has raised so far.
NoLoadRaised(m) ==
    /\ \A j \in DOMAIN jobs : \A k \in DOMAIN loadTasks[j] :
            loadTasks[j][k].model = m => loadTasks[j][k].raised # "load"
    /\ \A r \in ReqIds : reqs[r].model = m => reqs[r].result # "raised"

\* C1: single-flight load.  Whatever the interleaving of ensure_instance and
\* preload_model calls (requests and load jobs) on one registered model id
\* that is not loaded yet, the model's load hook is invoked at most once
\* (a hook call that raised leaves the model unloaded and is not counted).
C1_SingleFlight ==
    \A m \in ModelIds : NoLoadRaised(m) => loadCalls[m] <= 1

JobTargetsTerminal(j) ==
    \A m \in DOMAIN jobs[j].statuses : jobs[j].statuses[m] \in TerminalModelStatus

\* C4: a job whose aggregate status is completed or failed has every target
\* at loaded, skipped or error; never a target still pending or loading.
C4_TerminalJobHasTerminalTargets ==
    \A j \in DOMAIN jobs :
        jobs[j].status \in TerminalJobStatus => JobTargetsTerminal(j)

C4_Witness ==
    \E j \in DOMAIN jobs :
        /\ jobs[j].status \in TerminalJobStatus
        /\ Len(jobs[j].models) = 2
        /\ \E m \in DOMAIN jobs[j].statuses : jobs[j].statuses[m] = "loaded"

\* C5: once every target has finished, the job is failed if the preload of
\* some target errored (its load hook or its warmup hook raised), that target
\* being at status error, and completed if no target errored.
C5_FailedIffHookRaised ==
    \A j \in DOMAIN jobs :
        jobs[j].status \in TerminalJobStatus =>
            /\ (jobs[j].status = "failed") <=>
                    (\E k \in DOMAIN loadTasks[j] : loadTasks[j][k].raised # "none")
            /\ \A k \in DOMAIN loadTasks[j] :
                    loadTasks[j][k].raised # "none" =>
                        jobs[j].statuses[loadTasks[j][k].model] = "error"

\* Index of the first occurrence of x in seq.
FirstIndex(seq, x) ==
    CHOOSE i \in 1..Len(seq) : seq[i] = x /\ \A h \in 1..(i - 1) : seq[h] # x

SeqRange(seq) == {seq[i] : i \in 1..Len(seq)}

\* C6: create_job(ids) tracks exactly one status per distinct id of ids, in
\* first-seen order, and _run_job starts exactly one load task per distinct id.
C6_OneStatusAndTaskPerDistinctId ==
    \A j \in DOMAIN jobs :
        LET ids == jobInput[j]
            ms == jobs[j].models
        IN /\ SeqRange(ms) = SeqRange(ids)
           /\ Len(ms) = Cardinality(SeqRange(ids))
           /\ \A h, i \in 1..Len(ms) :
                h < i => FirstIndex(ids, ms[h]) < FirstIndex(ids, ms[i])
           /\ DOMAIN jobs[j].statuses = SeqRange(ids)
           /\ jobs[j].task # "scheduled" =>
                /\ Len(loadTasks[j]) = Cardinality(SeqRange(ids))
                /\ \A i \in 1..Len(loadTasks[j]) : loadTasks[j][i].model = ms[i]

C6_Witness ==
    \E j \in DOMAIN jobs :
        /\ jobInput[j] = <<"a", "b", "a">>
        /\ jobs[j].models = <<"a", "b">>
        /\ jobs[j].task = "gathering"
        /\ Len(loadTasks[j]) = 2

JobFinished(j) ==
    /\ j \in DOMAIN jobs
    /\ jobs[j].status \in TerminalJobStatus
    /\ JobTargetsTerminal(j)

\* C7: preload isolation.  With hooks that terminate and a fair event loop,
\* every created job reaches completed or failed with every target at
\* loaded, skipped or error, also when the hook of one of its targets raises.
C7_EveryJobFinishes ==
    \A j \in JobIds : (j \in DOMAIN jobs) ~> JobFinished(j)

\* A target whose warmup raised sits next to a target that was loaded.
C7_Witness ==
    \E j \in DOMAIN jobs :
        /\ JobFinished(j)
        /\ \E k \in DOMAIN loadTasks[j] : loadTasks[j][k].raised = "warmup"
        /\ \E m \in DOMAIN jobs[j].statuses : jobs[j].statuses[m] = "loaded"

\* C8: wait_for_job returns only once the job's fan-out has finished, and
\* get_job never waits: it is always possible, and it returns the job as it
\* is at the call (pending and running included), or nothing for an unknown id.
C8_WaitBlocksGetDoesNot ==
    /\ \A j \in JobIds : waiters[j] = "returned" => JobFinished(j)
    /\ \A j \in JobIds : ENABLED get_job(j)
    /\ lastGet.found => lastGet.id \in DOMAIN jobs
    /\ lastGet.status \in {"pending", "running"} \cup TerminalJobStatus <=> lastGet.found

C8_Witness ==
    /\ \E j \in JobIds : waiters[j] = "returned"
    /\ lastGet.found
    /\ lastGet.status = "running"

\* ------------------------------------------------------------------------
\* ReadinessTracker (core/readiness.py)
\* ------------------------------------------------------------------------
\* Longest check list the free-running tracker calls may build.
MaxChecks == 2

\* ReadinessTracker.__init__
NewTracker ==
    [status |-> "starting",
     startup_checks |-> <<>>,
     self_test |-> [status |-> "pending", checks |-> <<>>],
     last_error |-> "None",
     ever_degraded |-> FALSE]    \* history: some call has set the status to degraded

CheckResult(name, st, detail) == [name |-> name, status |-> st, detail |-> detail]

mark_phase(t, name, st, detail) ==
    LET t1 == [t EXCEPT !.startup_checks = Append(@, CheckResult(name, st, detail))]
    IN IF st = "error"
       THEN [t1 EXCEPT !.status = "error",
                       !.last_error = IF detail # "None" THEN detail ELSE name]
       ELSE IF st = "degraded" /\ t.status # "error"
            THEN [t1 EXCEPT !.status = "degraded", !.ever_degraded = TRUE]
            ELSE t1

mark_ready_always(t) == [t EXCEPT !.status = "ready"]

mark_ready(t) ==
    IF t.status # "error" THEN [t EXCEPT !.status = "ready"] ELSE t

mark_degraded(t, reason) ==
    IF t.status # "error"
    THEN [t EXCEPT !.status = "degraded", !.ever_degraded = TRUE,
                   !.last_error = IF reason # "None" THEN reason ELSE @]
    ELSE t

mark_error(t, reason) == [t EXCEPT !.status = "error", !.last_error = reason]

begin_self_test(t) == [t EXCEPT !.self_test = [status |-> "running", checks |-> <<>>]]

record_self_test_check(t, name, st, detail) ==
    [t EXCEPT !.self_test.checks = Append(@, CheckResult(name, st, detail))]

finish_self_test(t, st) ==
    LET t1 == [t EXCEPT !.self_test.status = st]
    IN IF st = "ok" THEN mark_ready(t1)
       ELSE IF st = "degraded" THEN mark_degraded(t1, "self_test_failed")
       ELSE IF st = "error" THEN mark_error(t1, "self_test_failed")
       ELSE t1

\* Arguments the tracker's callers pass.
PhaseNames == {"preload"}
PhaseStatuses == {"ok", "degraded", "error"}
Details == {"None", "boom"}
SelfTestFinals == {"ok", "degraded", "error", "skipped"}

\* ------------------------------------------------------------------------
\* lifespan(): the boot sequence (main.py) with run_startup_self_test
\* ------------------------------------------------------------------------
Endpoints == <<"responses", "audio.transcriptions">>

\* Models whose spec.api.supports_stream is set.
StreamModels == {"a"}

RegisteredIds == {m \in ModelIds : IsRegistered(m)}

\* selected_defaults: endpoint -> model id, "None" for an endpoint without one.
DefaultsChoices ==
    [{Endpoints[i] : i \in 1..Len(Endpoints)} -> RegisteredIds \cup {"None"}]

Present(id) == id # "None"

\* list(dict.fromkeys(defaults.values()))
DefaultTargets(d) ==
    Dedupe(SelectSeq([i \in 1..Len(Endpoints) |-> d[Endpoints[i]]], Present))

\* [model.spec.id for model in registry.list_models()]
AllTargets == SelectSeq(<<"a", "b">>, IsRegistered)

\* The checks run_startup_self_test goes through, in order: one per default
\* model, then the two streaming checks where the default supports streaming.
SelfTestPlan(d) ==
    LET modelCheck(i) ==
            IF Present(d[Endpoints[i]])
            THEN <<[name |-> Endpoints[i], model |-> d[Endpoints[i]]]>>
            ELSE <<>>
        streamCheck(e, name) ==
            IF Present(d[e]) /\ d[e] \in StreamModels
            THEN <<[name |-> name, model |-> d[e]]>>
            ELSE <<>>
    IN modelCheck(1) \o modelCheck(2)
        \o streamCheck("responses", "responses_stream")
        \o streamCheck("audio.transcriptions", "audio_transcriptions_stream")

\* registry.shutdown has not been called.
ShutdownIdle == [pc |-> "idle", idx |-> 0, called |-> <<>>]

BootIdle ==
    [pc |-> "off", preload_all |-> FALSE, selftest |-> FALSE, strict |-> FALSE,
     defaults |-> [e \in {Endpoints[i] : i \in 1..Len(Endpoints)} |-> "None"],
     job |-> 0, plan |-> <<>>, idx |-> 0, failed |-> FALSE,
     raised |-> "",              \* what made the startup raise
     startup_called |-> <<>>,    \* the models whose startup hook was invoked
     shutdown_hooks |-> {},      \* the models whose module has a shutdown hook
     stop |-> ShutdownIdle]      \* registry.shutdown in lifespan's finally

\* The process starts: environment flags are whatever the operator set.
BootInit ==
    /\ LoadInit
    /\ readiness = NewTracker
    /\ resp = RespIdle
    /\ NoCalls
    /\ \E pa, se, st \in BOOLEAN : \E sh \in SUBSET ModelIds :
        boot = [BootIdle EXCEPT !.pc = "init", !.preload_all = pa,
                                !.selftest = se, !.strict = st, !.shutdown_hooks = sh]

\* An `except Exception` of lifespan that re-raises without marking.
StartupFailureUnmarked(t, b) ==
    [t |-> t, b |-> [b EXCEPT !.pc = "failed"]]

\* The `except Exception` of lifespan: mark_error("startup_failure"), re-raise.
StartupFailure(t, b) ==
    [t |-> mark_error(t, "startup_failure"), b |-> [b EXCEPT !.pc = "failed"]]

\* End of run_startup_self_test and what lifespan does with its outcome.
FinishSelfTest(t, b) ==
    LET final == IF b.failed THEN (IF b.strict THEN "error" ELSE "degraded") ELSE "ok"
        t1 == finish_self_test(t, final)
    IN IF b.failed /\ b.strict
       THEN StartupFailure(mark_error(t1, "self_test_failed"), [b EXCEPT !.raised = "self_test"])
       ELSE [t |-> mark_ready(t1), b |-> [b EXCEPT !.pc = "serving"]]

\* lifespan from the self-test switch to the next suspension point.
AfterPreload(t, b) ==
    IF ~b.selftest
    THEN [t |-> mark_ready([t EXCEPT !.self_test.status = "skipped"]),
          b |-> [b EXCEPT !.pc = "serving"]]
    ELSE LET t1 == begin_self_test(t)
             plan == SelfTestPlan(b.defaults)
         IN IF RegisteredIds = {}
            THEN [t |-> mark_ready(finish_self_test(t1, IF b.strict THEN "error" ELSE "degraded")),
                  b |-> [b EXCEPT !.pc = "serving"]]
            ELSE IF plan = <<>>
            THEN FinishSelfTest(t1, [b EXCEPT !.failed = FALSE])
            ELSE [t |-> t1,
                  b |-> [b EXCEPT !.pc = "selftest", !.plan = plan, !.idx = 1, !.failed = FALSE]]

\* lifespan up to `await registry.run_startup_hooks(...)`.
lifespan_start ==
    /\ boot.pc = "init"
    /\ \E d \in DefaultsChoices :
        /\ boot' = [boot EXCEPT !.pc = "startup_hooks", !.defaults = d, !.idx = 1]
        /\ readiness' = mark_phase(mark_phase(mark_phase(readiness,
                "config", "ok", "None"),
                "discover_models", "ok", "models"),
                "select_defaults", "ok", "defaults")
    /\ UNCHANGED <<loadVars, respVars, callVars>>

\* Config or catalog loading raised.
lifespan_start_raises ==
    /\ boot.pc = "init"
    /\ LET out == StartupFailure(mark_phase(readiness, "config", "ok", "None"),
                                 [boot EXCEPT !.raised = "config"])
       IN readiness' = out.t /\ boot' = out.b
    /\ UNCHANGED <<loadVars, respVars, callVars>>

\* run_startup_hooks reaches a model without a startup hook: `continue`.
lifespan_startup_hook_absent ==
    /\ boot.pc = "startup_hooks"
    /\ boot.idx <= Len(AllTargets)
    /\ boot' = [boot EXCEPT !.idx = @ + 1]
    /\ UNCHANGED <<readiness, loadVars, respVars, callVars>>

\* A model's startup hook was invoked and returned.
lifespan_startup_hook_returns ==
    /\ boot.pc = "startup_hooks"
    /\ boot.idx <= Len(AllTargets)
    /\ boot' = [boot EXCEPT !.idx = @ + 1,
                            !.startup_called = Append(@, AllTargets[boot.idx])]
    /\ UNCHANGED <<readiness, loadVars, respVars, callVars>>

\* A model's startup hook was invoked and raised: _call_hook logs and
\* re-raises, run_startup_hooks lets it through to lifespan's except.
lifespan_startup_hooks_raise ==
    /\ boot.pc = "startup_hooks"
    /\ boot.idx <= Len(AllTargets)
    /\ LET out == StartupFailure(readiness,
                        [boot EXCEPT !.raised = "startup_hook",
                                     !.startup_called = Append(@, AllTargets[boot.idx])])
       IN readiness' = out.t /\ boot' = out.b
    /\ UNCHANGED <<loadVars, respVars, callVars>>

\* Startup hooks done: start the preload job and wait for it, or go on.
lifespan_startup_hooks_done ==
    /\ boot.pc = "startup_hooks"
    /\ boot.idx > Len(AllTargets)
    /\ LET t1 == mark_phase(readiness, "startup_hooks", "ok", "None")
           targets == IF boot.preload_all THEN AllTargets ELSE DefaultTargets(boot.defaults)
       IN IF targets # <<>>
          THEN /\ create_job(targets)
               /\ readiness' = t1
               /\ boot' = [boot EXCEPT !.pc = "preload", !.job = Len(jobs) + 1]
          ELSE /\ LET out == AfterPreload(mark_phase(t1, "preload", "ok", "no targets"), boot)
                  IN readiness' = out.t /\ boot' = out.b
               /\ UNCHANGED loadVars
    /\ UNCHANGED <<respVars, callVars>>

\* The detail of the preload phase, f"job_id={job.id} status={job.status}",
\* for the one job the boot sequence creates.
preload_detail(job) ==
    IF job.status = "failed" THEN "job_id=1 status=failed"
    ELSE IF job.status = "completed" THEN "job_id=1 status=completed"
    ELSE "job_id=1 status=running"

\* wait_for_job returned.
lifespan_preload_done ==
    /\ boot.pc = "preload"
    /\ TaskAwaitable(boot.job)
    /\ loaded_models' = SortedKeys(model_instances)
    /\ LET out == AfterPreload(mark_phase(readiness, "preload", "ok",
                                          preload_detail(jobs[boot.job])), boot)
       IN readiness' = out.t /\ boot' = out.b
    /\ UNCHANGED <<hooks, model_instances, loadCalls, nextHandle, jobs,
                   jobInput, loadTasks, reqs, waiters, lastGet, respVars, callVars>>

\* One self-test check: the backend's run() returned a result that passed
\* validation (ok) or raised / failed validation (not ok).
lifespan_selftest_check(ok) ==
    /\ boot.pc = "selftest"
    /\ LET c == boot.plan[boot.idx]
           t1 == record_self_test_check(readiness, c.name, IF ok THEN "ok" ELSE "error",
                                        IF ok THEN "None" ELSE "boom")
           b1 == [boot EXCEPT !.failed = @ \/ ~ok]
           out == IF boot.idx = Len(boot.plan)
                  THEN FinishSelfTest(t1, b1)
                  ELSE [t |-> t1, b |-> [b1 EXCEPT !.idx = @ + 1]]
       IN readiness' = out.t /\ boot' = out.b
    /\ UNCHANGED <<loadVars, respVars, callVars>>

\* ModelRegistry.shutdown: the next model, from position i of _hooks, that has
\* a shutdown hook and a cached instance; 0 when the loop is over.
NextShutdown(i) ==
    IF \E k \in i..Len(AllTargets) :
            AllTargets[k] \in boot.shutdown_hooks /\ IsCached(AllTargets[k])
    THEN CHOOSE k \in i..Len(AllTargets) :
            /\ AllTargets[k] \in boot.shutdown_hooks /\ IsCached(AllTargets[k])
            /\ \A h \in i..(k - 1) :
                    ~(AllTargets[h] \in boot.shutdown_hooks /\ IsCached(AllTargets[h]))
    ELSE 0

\* shutdown's loop from position i to its next await, or to its end.
ShutdownFrom(i, called) ==
    IF NextShutdown(i) = 0
    THEN [pc |-> "returned", idx |-> 0, called |-> called]
    ELSE [pc |-> "in_hook", idx |-> NextShutdown(i),
          called |-> Append(called, AllTargets[NextShutdown(i)])]

\* lifespan's finally, once the startup has raised or the application stops:
\* registry.shutdown if the registry was built.
lifespan_shutdown ==
    /\ boot.pc \in {"failed", "serving"}
    /\ boot.stop.pc = "idle"
    /\ boot' = [boot EXCEPT !.stop = IF boot.raised = "config"
                                     THEN [ShutdownIdle EXCEPT !.pc = "no_registry"]
                                     ELSE ShutdownFrom(1, <<>>)]
    /\ UNCHANGED <<readiness, loadVars, respVars, callVars>>

\* A shutdown hook returned: on to the next model.
shutdown_hook_returns ==
    /\ boot.stop.pc = "in_hook"
    /\ boot' = [boot EXCEPT !.stop = ShutdownFrom(boot.stop.idx + 1, boot.stop.called)]
    /\ UNCHANGED <<readiness, loadVars, respVars, callVars>>

\* A shutdown hook raised: _call_hook logs and re-raises, and nothing in
\* shutdown catches it.
shutdown_hook_raises ==
    /\ boot.stop.pc = "in_hook"
    /\ boot' = [boot EXCEPT !.stop.pc = "raised"]
    /\ UNCHANGED <<readiness, loadVars, respVars, callVars>>

LifespanStep ==
    \/ lifespan_start
    \/ lifespan_start_raises
    \/ lifespan_startup_hook_absent
    \/ lifespan_startup_hook_returns
    \/ lifespan_startup_hooks_raise
    \/ lifespan_shutdown
    \/ shutdown_hook_returns
    \/ shutdown_hook_raises
    \/ lifespan_startup_hooks_done
    \/ lifespan_preload_done
    \/ \E ok \in BOOLEAN : lifespan_selftest_check(ok)

\* ------------------------------------------------------------------------
\* Text (helpers/structured_output.py).  A text is a sequence of one-character
\* strings; "" stands for "past the end".
\* ------------------------------------------------------------------------
WS == {" ", "\n", "\t", "\r"}

Ch(s, i) == IF i >= 1 /\ i <= Len(s) THEN s[i] ELSE ""

\* First position >= i that holds no whitespace (Len(s) + 1 when none does).
RECURSIVE SkipWs(_, _)
SkipWs(s, i) == IF Ch(s, i) \in WS THEN SkipWs(s, i + 1) ELSE i

\* Last position <= i that holds no whitespace (0 when none does).
RECURSIVE SkipWsBack(_, _)
SkipWsBack(s, i) == IF Ch(s, i) \in WS THEN SkipWsBack(s, i - 1) ELSE i

\* str.strip()
Strip(s) == SubSeq(s, SkipWs(s, 1), SkipWsBack(s, Len(s)))

\* str.find(c) and str.rfind(c); 0 stands for Python's -1.
Find(s, c) ==
    IF \E i \in 1..Len(s) : s[i] = c
    THEN CHOOSE i \in 1..Len(s) : s[i] = c /\ \A h \in 1..(i - 1) : s[h] # c
    ELSE 0

RFind(s, c) ==
    IF \E i \in 1..Len(s) : s[i] = c
    THEN CHOOSE i \in 1..Len(s) : s[i] = c /\ \A h \in (i + 1)..Len(s) : s[h] # c
    ELSE 0

LowerLetters ==
    {"a", "b", "c", "d", "e", "f", "g", "h", "i", "j", "k", "l", "m",
     "n", "o", "p", "q", "r", "s", "t", "u", "v", "w", "x", "y", "z"}

DigitChars == <<"0", "1", "2", "3", "4", "5", "6", "7", "8", "9">>

IsDigit(c) == \E d \in 1..Len(DigitChars) : DigitChars[d] = c

\* re.IGNORECASE folding for the capital letters the tag names can be written with.
Lower(c) ==
    CASE c = "T" -> "t" [] c = "H" -> "h" [] c = "I" -> "i" [] c = "N" -> "n"
      [] c = "K" -> "k" [] c = "G" -> "g" [] OTHER -> c

\* Does lit occur at position i of s, letter case ignored?
LitAt(s, i, lit) ==
    /\ i + Len(lit) - 1 <= Len(s)
    /\ \A h \in 1..Len(lit) : Lower(s[i + h - 1]) = lit[h]

Thinking == <<"t", "h", "i", "n", "k", "i", "n", "g">>
Think == <<"t", "h", "i", "n", "k">>

\* `<\s*NAME\s*>` at i: the position after the `>`, else 0.
OpenTagEnd(s, i, name) ==
    IF Ch(s, i) # "<" THEN 0
    ELSE LET n == SkipWs(s, i + 1)
         IN IF ~LitAt(s, n, name) THEN 0
            ELSE LET g == SkipWs(s, n + Len(name))
                 IN IF Ch(s, g) = ">" THEN g + 1 ELSE 0

\* `<\s*/\s*NAME\s*>` at i: the position after the `>`, else 0.
CloseTagEnd(s, i, name) ==
    IF Ch(s, i) # "<" THEN 0
    ELSE LET sl == SkipWs(s, i + 1)
         IN IF Ch(s, sl) # "/" THEN 0
            ELSE LET n == SkipWs(s, sl + 1)
                 IN IF ~LitAt(s, n, name) THEN 0
                    ELSE LET g == SkipWs(s, n + Len(name))
                         IN IF Ch(s, g) = ">" THEN g + 1 ELSE 0

\* End of the shortest `(.*?)<\s*/\s*\1\s*>` starting at i, else 0.
RECURSIVE FirstCloseEnd(_, _, _)
FirstCloseEnd(s, i, name) ==
    IF i > Len(s) THEN 0
    ELSE IF CloseTagEnd(s, i, name) # 0 THEN CloseTagEnd(s, i, name)
    ELSE FirstCloseEnd(s, i + 1, name)

\* `(.*?)<\s*/\s*\1\s*>` after an opening tag that ended at open, else 0.
CloseAfter(s, open, name) == IF open # 0 THEN FirstCloseEnd(s, open, name) ELSE 0

OrElse(first, second) == IF first # 0 THEN first ELSE second

\* THINKING_PATTERN matched at i: the position after the match, else 0.
ThinkingMatchEnd(s, i) ==
    OrElse(CloseAfter(s, OpenTagEnd(s, i, Thinking), Thinking),
           CloseAfter(s, OpenTagEnd(s, i, Think), Think))

\* THINKING_PATTERN.sub("", text): drop every match, left to right.
RECURSIVE SubThinking(_, _)
SubThinking(s, i) ==
    IF i > Len(s) THEN <<>>
    ELSE IF ThinkingMatchEnd(s, i) # 0 THEN SubThinking(s, ThinkingMatchEnd(s, i))
    ELSE <<s[i]>> \o SubThinking(s, i + 1)

IsFenceLangChar(c) == Lower(c) \in LowerLetters \/ IsDigit(c) \/ c \in {"_", "-"}

RECURSIVE SkipFenceLang(_, _)
SkipFenceLang(s, i) == IF IsFenceLangChar(Ch(s, i)) THEN SkipFenceLang(s, i + 1) ELSE i

\* The backquote character, which a string of this notation cannot hold.
Backquote == "backquote"

Fence == <<Backquote, Backquote, Backquote>>

\* CODE_FENCE_START.sub("", trimmed, count=1) when it matches.
StripFenceStart(trimmed) ==
    IF LitAt(trimmed, 1, Fence)
    THEN SubSeq(trimmed, SkipWs(trimmed, SkipFenceLang(trimmed, 4)), Len(trimmed))
    ELSE trimmed

\* Does CODE_FENCE_END match?
HasFenceEnd(trimmed) == Len(trimmed) >= 3 /\ LitAt(trimmed, Len(trimmed) - 2, Fence)

\* CODE_FENCE_END.sub("", trimmed, count=1) when it matches.
StripFenceEnd(trimmed) ==
    IF HasFenceEnd(trimmed)
    THEN SubSeq(trimmed, 1, SkipWsBack(trimmed, Len(trimmed) - 3))
    ELSE trimmed

FencesStripped(trimmed, afterStart) ==
    [text |-> Strip(StripFenceEnd(afterStart)),
     changed |-> LitAt(trimmed, 1, Fence) \/ HasFenceEnd(afterStart)]

FencesOfTrimmed(trimmed) == FencesStripped(trimmed, StripFenceStart(trimmed))

\* _strip_code_fences: [text, changed]
strip_code_fences(text) == FencesOfTrimmed(Strip(text))

strip_thinking(text) ==
    IF text = <<>> THEN <<>>
    ELSE Strip(strip_code_fences(Strip(SubThinking(text, 1))).text)

\* _autoclose_json's scan: the stack of open brackets at the end of the
\* text, <<"!">> when a closing bracket does not match or a string is left open.
RECURSIVE AutocloseScan(_, _, _, _, _)
AutocloseScan(s, i, stack, in_string, escape) ==
    IF i > Len(s) THEN (IF in_string THEN <<"!">> ELSE stack)
    ELSE LET ch == s[i] IN
         IF escape THEN AutocloseScan(s, i + 1, stack, in_string, FALSE)
         ELSE IF ch = "\\" THEN AutocloseScan(s, i + 1, stack, in_string, in_string)
         ELSE IF ch = "\"" THEN AutocloseScan(s, i + 1, stack, ~in_string, FALSE)
         ELSE IF in_string THEN AutocloseScan(s, i + 1, stack, in_string, FALSE)
         ELSE IF ch \in {"{", "["} THEN AutocloseScan(s, i + 1, Append(stack, ch), FALSE, FALSE)
         ELSE IF ch \in {"}", "]"}
              THEN IF stack # <<>> /\ stack[Len(stack)] = (IF ch = "}" THEN "{" ELSE "[")
                   THEN AutocloseScan(s, i + 1, SubSeq(stack, 1, Len(stack) - 1), FALSE, FALSE)
                   ELSE <<"!">>
         ELSE AutocloseScan(s, i + 1, stack, FALSE, FALSE)

\* The closing brackets for a stack of open ones, innermost first.
RECURSIVE Closing(_)
Closing(stack) ==
    IF stack = <<>> THEN <<>>
    ELSE <<IF stack[Len(stack)] = "{" THEN "}" ELSE "]">>
            \o Closing(SubSeq(stack, 1, Len(stack) - 1))

NoText == [ok |-> FALSE, text |-> <<>>]
SomeText(t) == [ok |-> TRUE, text |-> t]

AutocloseWith(candidate, stack) ==
    IF stack = <<"!">> THEN NoText ELSE SomeText(candidate \o Closing(stack))

\* _autoclose_json: NoText stands for None.
autoclose_json(candidate) ==
    IF candidate = <<>> THEN NoText
    ELSE AutocloseWith(candidate, AutocloseScan(candidate, 1, <<>>, FALSE, FALSE))

\* candidate[first:last + 1] when both were found in this order, else "".
Region(candidate, first, last) ==
    IF first # 0 /\ last > first THEN SubSeq(candidate, first, last) ELSE <<>>

LongerRegion(candidate, obj, arr) ==
    IF obj = <<>> /\ arr = <<>> THEN candidate
    ELSE IF Len(arr) > Len(obj) THEN arr ELSE obj

ExtractFrom(candidate) ==
    IF candidate = <<>> THEN <<>>
    ELSE IF candidate[1] \in {"{", "["} /\ candidate[Len(candidate)] \in {"]", "}"}
         THEN candidate
    ELSE LongerRegion(candidate,
                      Region(candidate, Find(candidate, "{"), RFind(candidate, "}")),
                      Region(candidate, Find(candidate, "["), RFind(candidate, "]")))

extract_json_region(text) == ExtractFrom(Strip(text))

\* TRAILING_COMMA_PATTERN.sub("", text): drop each `,\s*` that stands before
\* a closing bracket.
KeepTrailingCommas(s, i) == SubSeq(s, i, Len(s))

RECURSIVE SubTrailingCommas(_, _)
SubTrailingCommas(s, i) ==
    IF i > Len(s) THEN <<>>
    ELSE IF s[i] = "," /\ Ch(s, SkipWs(s, i + 1)) \in {"}", "]"}
         THEN SubTrailingCommas(s, SkipWs(s, i + 1))
         ELSE <<s[i]>> \o SubTrailingCommas(s, i + 1)

\* repair_json_minimal from the autoclose step on.
RepairClosed(trimmed, fenced, commas, autoclose) ==
    LET closed == autoclose.ok /\ autoclose.text # <<>> /\ autoclose.text # commas
        repaired == IF closed THEN autoclose.text ELSE commas
    IN IF repaired # trimmed \/ fenced \/ closed
       THEN SomeText(Strip(repaired))
       ELSE NoText

RepairCommas(trimmed, fenced, commas) ==
    RepairClosed(trimmed, fenced, commas, autoclose_json(commas))

RepairFenced(trimmed, fences) ==
    RepairCommas(trimmed, fences.changed, SubTrailingCommas(fences.text, 1))

RepairTrimmed(trimmed) == RepairFenced(trimmed, strip_code_fences(trimmed))

\* repair_json_minimal: NoText stands for None.
repair_json_minimal(text) ==
    IF text = <<>> THEN NoText ELSE RepairTrimmed(Strip(text))

\* ------------------------------------------------------------------------
\* JSON values, json.loads and json.dumps
\* ------------------------------------------------------------------------
JBool(b) == [t |-> "bool", b |-> b]
JNum(n) == [t |-> "num", n |-> n]
JStr(chars) == [t |-> "str", s |-> chars]
JArr(items) == [t |-> "arr", v |-> items]
JObj(keys, vals) == [t |-> "obj", k |-> keys, v |-> vals]

KeyIndex(obj, key) ==
    IF \E i \in 1..Len(obj.k) : obj.k[i] = key
    THEN CHOOSE i \in 1..Len(obj.k) : obj.k[i] = key
    ELSE 0

HasKey(obj, key) == obj.t = "obj" /\ KeyIndex(obj, key) # 0

\* dict.get(key), JNull standing for None.
Get(obj, key) == IF HasKey(obj, key) THEN obj.v[KeyIndex(obj, key)] ELSE JNull

\* dict[key] = val: a new key goes last, a known key keeps its place.
Put(obj, key, val) ==
    IF HasKey(obj, key)
    THEN JObj(obj.k, [obj.v EXCEPT ![KeyIndex(obj, key)] = val])
    ELSE JObj(Append(obj.k, key), Append(obj.v, val))

DigitVal(c) == (CHOOSE d \in 1..Len(DigitChars) : DigitChars[d] = c) - 1

ParseFail == [ok |-> FALSE, val |-> JNull, pos |-> 0]
Parsed(val, pos) == [ok |-> TRUE, val |-> val, pos |-> pos]

\* The digits of a number from position i on: the value read so far and the
\* position after the last digit.
RECURSIVE ScanDigits(_, _, _)
ScanDigits(s, i, acc) ==
    IF IsDigit(Ch(s, i)) THEN ScanDigits(s, i + 1, acc * 10 + DigitVal(s[i]))
    ELSE [n |-> acc, pos |-> i]

\* An integer literal at i: -?(0|[1-9][0-9]*).  A fraction or an exponent
\* after it is outside this model's texts.
ParseNumber(s, i) ==
    LET neg == Ch(s, i) = "-"
        d == IF neg THEN i + 1 ELSE i
    IN IF ~IsDigit(Ch(s, d)) THEN ParseFail
       ELSE IF s[d] = "0" THEN Parsed(JNum(0), d + 1)
       ELSE LET r == ScanDigits(s, d, 0)
            IN Parsed(JNum(IF neg THEN 0 - r.n ELSE r.n), r.pos)

\* The characters json's string scanner accepts after a backslash, and what
\* they stand for (unicode escapes are outside this model's texts).
Unescape(c) ==
    CASE c = "n" -> "\n" [] c = "t" -> "\t" [] c = "r" -> "\r"
      [] c = "\"" -> "\"" [] c = "\\" -> "\\" [] c = "/" -> "/" [] OTHER -> ""

\* A string body from i (after the opening quote) to its closing quote.
RECURSIVE ScanString(_, _, _)
ScanString(s, i, acc) ==
    LET ch == Ch(s, i) IN
    IF ch = "" THEN ParseFail
    ELSE IF ch = "\"" THEN Parsed(JStr(acc), i + 1)
    ELSE IF ch = "\\"
         THEN IF Unescape(Ch(s, i + 1)) = "" THEN ParseFail
              ELSE ScanString(s, i + 2, Append(acc, Unescape(Ch(s, i + 1))))
    ELSE IF ch \in {"\n", "\t", "\r"} THEN ParseFail
    ELSE ScanString(s, i + 1, Append(acc, ch))

\* Does lit occur at position i of s, letter for letter?
ExactAt(s, i, lit) ==
    /\ i + Len(lit) - 1 <= Len(s)
    /\ \A h \in 1..Len(lit) : s[i + h - 1] = lit[h]

RECURSIVE ParseValue(_, _), ParseMembers(_, _, _), ParseElements(_, _, _)

\* One JSON value starting exactly at i.
ParseValue(s, i) ==
    LET ch == Ch(s, i) IN
    IF ch = "\"" THEN ScanString(s, i + 1, <<>>)
    ELSE IF ch = "{"
         THEN IF Ch(s, SkipWs(s, i + 1)) = "}"
              THEN Parsed(JObj(<<>>, <<>>), SkipWs(s, i + 1) + 1)
              ELSE ParseMembers(s, SkipWs(s, i + 1), JObj(<<>>, <<>>))
    ELSE IF ch = "["
         THEN IF Ch(s, SkipWs(s, i + 1)) = "]"
              THEN Parsed(JArr(<<>>), SkipWs(s, i + 1) + 1)
              ELSE ParseElements(s, SkipWs(s, i + 1), <<>>)
    ELSE IF ExactAt(s, i, <<"n", "u", "l", "l">>) THEN Parsed(JNull, i + 4)
    ELSE IF ExactAt(s, i, <<"t", "r", "u", "e">>) THEN Parsed(JBool(TRUE), i + 4)
    ELSE IF ExactAt(s, i, <<"f", "a", "l", "s", "e">>) THEN Parsed(JBool(FALSE), i + 5)
    ELSE ParseNumber(s, i)

\* Object members from i, which must hold the quote of a key.
ParseMembers(s, i, obj) ==
    IF Ch(s, i) # "\"" THEN ParseFail
    ELSE LET key == ScanString(s, i + 1, <<>>) IN
         IF ~key.ok THEN ParseFail
         ELSE LET colon == SkipWs(s, key.pos) IN
              IF Ch(s, colon) # ":" THEN ParseFail
              ELSE LET val == ParseValue(s, SkipWs(s, colon + 1)) IN
                   IF ~val.ok THEN ParseFail
                   ELSE LET next == SkipWs(s, val.pos)
                            obj1 == Put(obj, key.val.s, val.val)
                        IN IF Ch(s, next) = "}" THEN Parsed(obj1, next + 1)
                           ELSE IF Ch(s, next) = ","
                                THEN ParseMembers(s, SkipWs(s, next + 1), obj1)
                           ELSE ParseFail

\* Array elements from i.
ParseElements(s, i, items) ==
    LET val == ParseValue(s, i) IN
    IF ~val.ok THEN ParseFail
    ELSE LET next == SkipWs(s, val.pos)
             items1 == Append(items, val.val)
         IN IF Ch(s, next) = "]" THEN Parsed(JArr(items1), next + 1)
            ELSE IF Ch(s, next) = ","
                 THEN ParseElements(s, SkipWs(s, next + 1), items1)
            ELSE ParseFail

LoadsResult(text, r) ==
    IF r.ok /\ SkipWs(text, r.pos) > Len(text)
    THEN [ok |-> TRUE, val |-> r.val]
    ELSE [ok |-> FALSE, val |-> JNull]

\* json.loads(text): [ok, val]; ok = FALSE stands for JSONDecodeError.
json_loads(text) == LoadsResult(text, ParseValue(text, SkipWs(text, 1)))

RECURSIVE IntChars(_)
IntChars(n) ==
    IF n < 0 THEN <<"-">> \o IntChars(0 - n)
    ELSE IF n < 10 THEN <<DigitChars[n + 1]>>
    ELSE IntChars(n \div 10) \o <<DigitChars[(n % 10) + 1]>>

\* json.dumps of a string with ensure_ascii=False.
RECURSIVE EscapeChars(_, _)
EscapeChars(chars, i) ==
    IF i > Len(chars) THEN <<>>
    ELSE (CASE chars[i] = "\"" -> <<"\\", "\"">>
            [] chars[i] = "\\" -> <<"\\", "\\">>
            [] chars[i] = "\n" -> <<"\\", "n">>
            [] chars[i] = "\t" -> <<"\\", "t">>
            [] chars[i] = "\r" -> <<"\\", "r">>
            [] OTHER -> <<chars[i]>>) \o EscapeChars(chars, i + 1)

Quoted(chars) == <<"\"">> \o EscapeChars(chars, 1) \o <<"\"">>

\* json.dumps(value, ensure_ascii=False, separators=(",", ":"))
RECURSIVE json_dumps(_), DumpItems(_, _), DumpMembers(_, _)
json_dumps(val) ==
    CASE val.t = "null" -> <<"n", "u", "l", "l">>
      [] val.t = "bool" -> (IF val.b THEN <<"t", "r", "u", "e">> ELSE <<"f", "a", "l", "s", "e">>)
      [] val.t = "num" -> IntChars(val.n)
      [] val.t = "str" -> Quoted(val.s)
      [] val.t = "arr" -> <<"[">> \o DumpItems(val.v, 1) \o <<"]">>
      [] val.t = "obj" -> <<"{">> \o DumpMembers(val, 1) \o <<"}">>

DumpItems(items, i) ==
    IF i > Len(items) THEN <<>>
    ELSE (IF i > 1 THEN <<",">> ELSE <<>>) \o json_dumps(items[i]) \o DumpItems(items, i + 1)

DumpMembers(obj, i) ==
    IF i > Len(obj.k) THEN <<>>
    ELSE (IF i > 1 THEN <<",">> ELSE <<>>) \o Quoted(obj.k[i]) \o <<":">>
            \o json_dumps(obj.v[i]) \o DumpMembers(obj, i + 1)

\* postprocess_to_json_text: [ok, error, canonical, parsed]
PostFail(reason) == [ok |-> FALSE, error |-> reason, canonical |-> <<>>, parsed |-> JNull]
PostOk(parsed) == [ok |-> TRUE, error |-> "", canonical |-> json_dumps(parsed), parsed |-> parsed]

\* The second json.loads, of the repaired text.
PostprocessSecond(second) ==
    IF second.ok THEN PostOk(second.val) ELSE PostFail("invalid_json: parse_failed")

PostprocessRepaired(repaired) ==
    IF ~repaired.ok \/ repaired.text = <<>> THEN PostFail("invalid_json: parse_failed")
    ELSE PostprocessSecond(json_loads(repaired.text))

\* The first json.loads, and the repair when it fails.
PostprocessFirst(candidate, first) ==
    IF first.ok THEN PostOk(first.val)
    ELSE PostprocessRepaired(repair_json_minimal(candidate))

PostprocessCandidate(candidate) ==
    IF candidate = <<>> THEN PostFail("invalid_json: empty response")
    ELSE PostprocessFirst(candidate, json_loads(candidate))

postprocess_to_json_text(raw_text) ==
    PostprocessCandidate(extract_json_region(strip_thinking(raw_text)))

\* ------------------------------------------------------------------------
\* Schemas: strict rewrite, validation, array trimming
\* ------------------------------------------------------------------------
K_type == <<"t", "y", "p", "e">>
K_properties == <<"p", "r", "o", "p", "e", "r", "t", "i", "e", "s">>
K_required == <<"r", "e", "q", "u", "i", "r", "e", "d">>
K_additionalProperties ==
    <<"a", "d", "d", "i", "t", "i", "o", "n", "a", "l", "P", "r", "o", "p", "e", "r", "t", "i", "e", "s">>
K_items == <<"i", "t", "e", "m", "s">>
K_maxItems == <<"m", "a", "x", "I", "t", "e", "m", "s">>
K_anyOf == <<"a", "n", "y", "O", "f">>
K_oneOf == <<"o", "n", "e", "O", "f">>
K_allOf == <<"a", "l", "l", "O", "f">>

T_object == <<"o", "b", "j", "e", "c", "t">>
T_array == <<"a", "r", "r", "a", "y">>
T_number == <<"n", "u", "m", "b", "e", "r">>
T_integer == <<"i", "n", "t", "e", "g", "e", "r">>
T_string == <<"s", "t", "r", "i", "n", "g">>
T_boolean == <<"b", "o", "o", "l", "e", "a", "n">>
T_null == <<"n", "u", "l", "l">>

\* make_openai_strict_schema._apply
RECURSIVE strict_apply(_)
strict_apply(node) ==
    IF node.t = "obj"
    THEN LET n1 == JObj(node.k, [i \in 1..Len(node.v) |-> strict_apply(node.v[i])])
             props == Get(n1, K_properties)
             p2 == JObj(props.k, [i \in 1..Len(props.v) |-> strict_apply(props.v[i])])
             n2a == Put(n1, K_properties, p2)
             req == Get(n2a, K_required)
             n2b == IF req.t = "arr"
                    THEN Put(n2a, K_required,
                             JArr(SelectSeq(req.v, LAMBDA key : key.t = "str" /\ HasKey(p2, key.s))))
                    ELSE n2a
             n2 == IF props.t # "obj" THEN n1
                   ELSE IF HasKey(n2b, K_additionalProperties) THEN n2b
                   ELSE Put(n2b, K_additionalProperties, JBool(FALSE))
             items == Get(n2, K_items)
             n3 == IF items.t = "obj" THEN Put(n2, K_items, strict_apply(items)) ELSE n2
             Branch(n, key) ==
                IF Get(n, key).t = "arr"
                THEN Put(n, key, JArr([i \in 1..Len(Get(n, key).v) |-> strict_apply(Get(n, key).v[i])]))
                ELSE n
         IN Branch(Branch(Branch(n3, K_anyOf), K_oneOf), K_allOf)
    ELSE IF node.t = "arr" THEN JArr([i \in 1..Len(node.v) |-> strict_apply(node.v[i])])
    ELSE node

make_openai_strict_schema(schema) == strict_apply(schema)

\* Code-point order of the characters object keys are written with.
KeyAlphabet ==
    <<"0", "1", "2", "3", "4", "5", "6", "7", "8", "9",
      "A", "B", "C", "D", "E", "F", "G", "H", "I", "J", "K", "L", "M",
      "N", "O", "P", "Q", "R", "S", "T", "U", "V", "W", "X", "Y", "Z", "_",
      "a", "b", "c", "d", "e", "f", "g", "h", "i", "j", "k", "l", "m",
      "n", "o", "p", "q", "r", "s", "t", "u", "v", "w", "x", "y", "z">>

CharRank(c) ==
    IF \E i \in 1..Len(KeyAlphabet) : KeyAlphabet[i] = c
    THEN CHOOSE i \in 1..Len(KeyAlphabet) : KeyAlphabet[i] = c
    ELSE 0

\* x < y for two keys, as str compares them.
RECURSIVE KeyLess(_, _, _)
KeyLess(x, y, i) ==
    IF i > Len(y) THEN FALSE
    ELSE IF i > Len(x) THEN TRUE
    ELSE IF x[i] = y[i] THEN KeyLess(x, y, i + 1)
    ELSE CharRank(x[i]) < CharRank(y[i])

\* json.loads(json.dumps(value, sort_keys=True)): the keys of every object in
\* ascending order.
RECURSIVE sort_keys(_)
sort_keys(val) ==
    IF val.t = "obj"
    THEN LET n == Len(val.k)
             Rank(i) == Cardinality({h \in 1..n : KeyLess(val.k[h], val.k[i], 1)}) + 1
             At(r) == CHOOSE i \in 1..n : Rank(i) = r
         IN JObj([r \in 1..n |-> val.k[At(r)]], [r \in 1..n |-> sort_keys(val.v[At(r)])])
    ELSE IF val.t = "arr" THEN JArr([i \in 1..Len(val.v) |-> sort_keys(val.v[i])])
    ELSE val

\* error.absolute_path elements and the trimmer's path elements.
PathKey(key) == [kind |-> "key", key |-> key, idx |-> 0]
PathIdx(i) == [kind |-> "idx", key |-> <<>>, idx |-> i]
WILDCARD == [kind |-> "wildcard", key |-> <<>>, idx |-> 0]

Violation(path, keyword) == [path |-> path, keyword |-> keyword]

\* Draft 7 "type" for one type name.
IsType(val, name) ==
    \/ name = T_object /\ val.t = "obj"
    \/ name = T_array /\ val.t = "arr"
    \/ name = T_string /\ val.t = "str"
    \/ name = T_boolean /\ val.t = "bool"
    \/ name = T_null /\ val.t = "null"
    \/ name \in {T_number, T_integer} /\ val.t = "num"

RECURSIVE Flatten(_)
Flatten(seqs) == IF seqs = <<>> THEN <<>> ELSE Head(seqs) \o Flatten(Tail(seqs))

\* Draft7Validator.iter_errors for the keywords type, properties, required,
\* additionalProperties, items, maxItems, allOf, anyOf and oneOf; one violation
\* per error jsonschema yields, in the order it yields them.
RECURSIVE iter_errors(_, _, _)
iter_errors(val, schema, path) ==
    IF schema.t = "bool"
    THEN IF schema.b THEN <<>> ELSE <<Violation(path, "false")>>
    ELSE IF schema.t # "obj" THEN <<>>
    ELSE LET props == Get(schema, K_properties)
             Keyword(i) ==
                LET kw == schema.k[i]
                    arg == schema.v[i]
                IN IF kw = K_type
                   THEN LET names == IF arg.t = "arr" THEN arg.v ELSE <<arg>>
                        IN IF \E h \in 1..Len(names) :
                                 names[h].t = "str" /\ IsType(val, names[h].s)
                           THEN <<>> ELSE <<Violation(path, "type")>>
                   ELSE IF kw = K_properties
                   THEN IF val.t = "obj" /\ arg.t = "obj"
                        THEN Flatten([h \in 1..Len(arg.k) |->
                                 IF HasKey(val, arg.k[h])
                                 THEN iter_errors(Get(val, arg.k[h]), arg.v[h],
                                                  Append(path, PathKey(arg.k[h])))
                                 ELSE <<>>])
                        ELSE <<>>
                   ELSE IF kw = K_required
                   THEN IF val.t = "obj" /\ arg.t = "arr"
                        THEN Flatten([h \in 1..Len(arg.v) |->
                                 IF arg.v[h].t = "str" /\ ~HasKey(val, arg.v[h].s)
                                 THEN <<Violation(path, "required")>> ELSE <<>>])
                        ELSE <<>>
                   ELSE IF kw = K_additionalProperties
                   THEN IF val.t # "obj" THEN <<>>
                        ELSE LET extras == SelectSeq(val.k, LAMBDA key : ~HasKey(props, key))
                             IN IF arg.t = "obj"
                                THEN Flatten([h \in 1..Len(extras) |->
                                         iter_errors(Get(val, extras[h]), arg,
                                                     Append(path, PathKey(extras[h])))])
                                ELSE IF arg.t = "bool" /\ ~arg.b /\ extras # <<>>
                                THEN <<Violation(path, "additionalProperties")>>
                                ELSE <<>>
                   ELSE IF kw = K_items
                   THEN IF val.t = "arr" /\ arg.t \in {"obj", "bool"}
                        THEN Flatten([h \in 1..Len(val.v) |->
                                 iter_errors(val.v[h], arg, Append(path, PathIdx(h - 1)))])
                        ELSE <<>>
                   ELSE IF kw = K_maxItems
                   THEN IF val.t = "arr" /\ arg.t = "num" /\ Len(val.v) > arg.n
                        THEN <<Violation(path, "maxItems")>> ELSE <<>>
                   ELSE IF kw = K_allOf
                   THEN IF arg.t = "arr"
                        THEN Flatten([h \in 1..Len(arg.v) |-> iter_errors(val, arg.v[h], path)])
                        ELSE <<>>
                   ELSE IF kw = K_anyOf
                   THEN IF arg.t = "arr" /\ \A h \in 1..Len(arg.v) : iter_errors(val, arg.v[h], path) # <<>>
                        THEN <<Violation(path, "anyOf")>> ELSE <<>>
                   ELSE IF kw = K_oneOf
                   THEN IF arg.t = "arr"
                           /\ Cardinality({h \in 1..Len(arg.v) : iter_errors(val, arg.v[h], path) = <<>>}) # 1
                        THEN <<Violation(path, "oneOf")>> ELSE <<>>
                   ELSE <<>>
         IN Flatten([i \in 1..Len(schema.k) |-> Keyword(i)])

\* jsonschema is a declared requirement of structured outputs; the model has
\* it installed, so _get_validator never raises RuntimeError.
MaxViolations == 25

CapViolations(errors) ==
    IF Len(errors) >= MaxViolations THEN SubSeq(errors, 1, MaxViolations) ELSE errors

\* validate_against_schema: at most MaxViolations violations.
validate_against_schema(obj, schema) ==
    CapViolations(iter_errors(obj, sort_keys(schema), <<>>))

\* _type_includes
type_includes(schema_node, expected) ==
    LET schema_type == Get(schema_node, K_type)
    IN IF schema_type.t = "arr"
       THEN \E i \in 1..Len(schema_type.v) :
                schema_type.v[i].t = "str" /\ schema_type.v[i].s = expected
       ELSE schema_type.t = "str" /\ schema_type.s = expected

\* isinstance(value, int), which holds of the booleans too, and the integer.
IsInt(val) == val.t \in {"num", "bool"}
IntOf(val) == IF val.t = "num" THEN val.n ELSE IF val.b THEN 1 ELSE 0

\* bool(value) of a JSON value
Truthy(val) ==
    CASE val.t = "null" -> FALSE
      [] val.t = "bool" -> val.b
      [] val.t = "num" -> val.n # 0
      [] val.t = "str" -> val.s # <<>>
      [] val.t = "arr" -> val.v # <<>>
      [] val.t = "obj" -> val.k # <<>>

\* _collect_array_constraints: a sequence of [path, max_items].
RECURSIVE collect_array_constraints(_, _)
collect_array_constraints(schema, path) ==
    IF schema.t # "obj" THEN <<>>
    ELSE LET is_array == type_includes(schema, T_array)
             max_items == Get(schema, K_maxItems)
             items == Get(schema, K_items)
             props == IF HasKey(schema, K_properties) THEN Get(schema, K_properties)
                      ELSE JObj(<<>>, <<>>)
             own == IF is_array /\ IsInt(max_items) /\ IntOf(max_items) >= 0
                    THEN <<[path |-> path, max_items |-> IntOf(max_items)]>> ELSE <<>>
             below == IF is_array /\ items.t = "obj"
                      THEN collect_array_constraints(items, Append(path, WILDCARD)) ELSE <<>>
             inProps == IF (type_includes(schema, T_object) \/ Truthy(Get(schema, K_properties)))
                           /\ props.t = "obj"
                        THEN Flatten([i \in 1..Len(props.k) |->
                                 collect_array_constraints(props.v[i],
                                                           Append(path, PathKey(props.k[i])))])
                        ELSE <<>>
         IN own \o below \o inProps

Unchanged(target) == [changed |-> FALSE, val |-> target]
Changed(target) == [changed |-> TRUE, val |-> target]

\* _apply_array_constraint: the target after the call and the call's result.
RECURSIVE apply_array_constraint(_, _, _)
apply_array_constraint(target, path, max_items) ==
    IF path = <<>>
    THEN IF target.t = "arr" /\ Len(target.v) > max_items
         THEN Changed(JArr(SubSeq(target.v, 1, max_items)))
         ELSE Unchanged(target)
    ELSE LET head == Head(path)
             rest == Tail(path)
         IN IF head.kind = "wildcard"
            THEN IF target.t # "arr" THEN Unchanged(target)
                 ELSE IF rest = <<>> THEN Unchanged(target)
                 ELSE LET each == [i \in 1..Len(target.v) |->
                                      apply_array_constraint(target.v[i], rest, max_items)]
                      IN [changed |-> \E i \in 1..Len(each) : each[i].changed,
                          val |-> JArr([i \in 1..Len(each) |-> each[i].val])]
            ELSE IF target.t # "obj" THEN Unchanged(target)
            ELSE IF rest = <<>>
                 THEN LET arr == Get(target, head.key)
                      IN IF arr.t # "arr" \/ Len(arr.v) <= max_items THEN Unchanged(target)
                         ELSE Changed(Put(target, head.key, JArr(SubSeq(arr.v, 1, max_items))))
            ELSE IF ~HasKey(target, head.key) THEN Unchanged(target)
            ELSE LET sub == apply_array_constraint(Get(target, head.key), rest, max_items)
                 IN [changed |-> sub.changed, val |-> Put(target, head.key, sub.val)]

\* The fixer build_schema_array_trimmer(schema) returns, applied to payload.
RECURSIVE ApplyConstraints(_, _, _)
ApplyConstraints(payload, constraints, i) ==
    IF i > Len(constraints) THEN Unchanged(payload)
    ELSE LET one == apply_array_constraint(payload, constraints[i].path, constraints[i].max_items)
             more == ApplyConstraints(one.val, constraints, i + 1)
         IN [changed |-> one.changed \/ more.changed, val |-> more.val]

build_schema_array_trimmer(schema, payload) ==
    ApplyConstraints(payload, collect_array_constraints(schema, <<>>), 1)

\* build_diagnostics_defaults_fixer with the defaults the enforcer gives it
\* (_build_auto_fixers): provider stt {kind: local, model: local//stt} and
\* llm {kind: local, model: <selected id>}, timing_ms stt, llm, total = 0.
\* Model ids are one character long.
K_diagnostics == <<"d", "i", "a", "g", "n", "o", "s", "t", "i", "c", "s">>
K_provider == <<"p", "r", "o", "v", "i", "d", "e", "r">>
K_timing_ms == <<"t", "i", "m", "i", "n", "g", "_", "m", "s">>
K_kind == <<"k", "i", "n", "d">>
K_model == <<"m", "o", "d", "e", "l">>
K_stt == <<"s", "t", "t">>
K_llm == <<"l", "l", "m">>
K_total == <<"t", "o", "t", "a", "l">>
Str_local == <<"l", "o", "c", "a", "l">>
DEFAULT_STT_MODEL == <<"l", "o", "c", "a", "l", "/", "/", "s", "t", "t">>

provider_defaults(model_id) ==
    <<[key |-> K_stt, kind |-> JStr(Str_local), model |-> JStr(DEFAULT_STT_MODEL)],
      [key |-> K_llm, kind |-> JStr(Str_local), model |-> JStr(<<model_id>>)]>>

timing_defaults == <<K_stt, K_llm, K_total>>

\* One pass of _ensure_provider's loop over one provider entry.
EnsureProviderEntry(state, defaults) ==
    LET entry == Get(state.val, defaults.key)
    IN IF entry.t # "obj"
       THEN Changed(Put(state.val, defaults.key,
                        JObj(<<K_kind, K_model>>, <<defaults.kind, defaults.model>>)))
       ELSE IF ~HasKey(entry, K_kind) /\ ~HasKey(entry, K_model)
       THEN Changed(Put(state.val, defaults.key,
                        Put(Put(entry, K_kind, defaults.kind), K_model, defaults.model)))
       ELSE IF ~HasKey(entry, K_kind)
       THEN Changed(Put(state.val, defaults.key, Put(entry, K_kind, defaults.kind)))
       ELSE IF ~HasKey(entry, K_model)
       THEN Changed(Put(state.val, defaults.key, Put(entry, K_model, defaults.model)))
       ELSE state

RECURSIVE EnsureProviderFrom(_, _, _)
EnsureProviderFrom(state, defaults, i) ==
    IF i > Len(defaults) THEN state
    ELSE EnsureProviderFrom(EnsureProviderEntry(state, defaults[i]), defaults, i + 1)

\* _ensure_provider
ensure_provider(existing, model_id) ==
    EnsureProviderFrom(IF existing.t = "obj" THEN Unchanged(existing)
                       ELSE Changed(JObj(<<>>, <<>>)),
                       provider_defaults(model_id), 1)

RECURSIVE EnsureTimingFrom(_, _)
EnsureTimingFrom(state, i) ==
    IF i > Len(timing_defaults) THEN state
    ELSE EnsureTimingFrom(IF HasKey(state.val, timing_defaults[i]) THEN state
                          ELSE Changed(Put(state.val, timing_defaults[i], JNum(0))),
                          i + 1)

\* _ensure_timing
ensure_timing(existing) ==
    EnsureTimingFrom(IF existing.t = "obj" THEN Unchanged(existing)
                     ELSE Changed(JObj(<<>>, <<>>)), 1)

\* _fixer on a payload whose diagnostics is the dict given: provider, then
\* timing_ms, both written into it; changed as the fixer returns it.
FixDiagnostics(payload, diagnostics, provider, timing) ==
    [changed |-> provider.changed \/ timing.changed,
     val |-> Put(payload, K_diagnostics,
                 Put(Put(diagnostics, K_provider, provider.val), K_timing_ms, timing.val))]

FixDiagnosticsOf(payload, diagnostics, model_id) ==
    FixDiagnostics(payload, diagnostics,
                   ensure_provider(Get(diagnostics, K_provider), model_id),
                   ensure_timing(Get(diagnostics, K_timing_ms)))

\* The fixer build_diagnostics_defaults_fixer returns, applied to payload.
diagnostics_defaults_fixer(payload, model_id) ==
    IF payload.t # "obj" THEN Unchanged(payload)
    ELSE IF Get(payload, K_diagnostics).t = "null"
    THEN FixDiagnosticsOf(payload, JObj(<<>>, <<>>), model_id)
    ELSE IF Get(payload, K_diagnostics).t # "obj" THEN Unchanged(payload)
    ELSE FixDiagnosticsOf(payload, Get(payload, K_diagnostics), model_id)

\* _build_auto_fixers: the diagnostics fixer is installed when the caller's
\* schema declares a "diagnostics" property.
HasDiagnosticsProperty(schema) ==
    /\ schema.t = "obj"
    /\ Get(schema, K_properties).t = "obj"
    /\ HasKey(Get(schema, K_properties), K_diagnostics)

\* The second fixer applied after the first.
ThenDiagnostics(first, model_id) ==
    [changed |-> first.changed \/ diagnostics_defaults_fixer(first.val, model_id).changed,
     val |-> diagnostics_defaults_fixer(first.val, model_id).val]

\* The loop over auto_fixers: the array trimmer, then the diagnostics fixer.
auto_fixers(schema, model_id, parsed) ==
    IF HasDiagnosticsProperty(schema)
    THEN ThenDiagnostics(build_schema_array_trimmer(schema, parsed), model_id)
    ELSE build_schema_array_trimmer(schema, parsed)

\* parse_and_validate_structured_output with the fixers the enforcer installs
\* for the caller's schema and the selected model.
\* [ok, error, violations, canonical, parsed]
ParseFailed(reason, violations) ==
    [ok |-> FALSE, error |-> reason, violations |-> violations,
     canonical |-> <<>>, parsed |-> JNull]

ValidatedResult(canonical, parsed, violations) ==
    IF violations # <<>> THEN ParseFailed("schema_validation_failed", violations)
    ELSE [ok |-> TRUE, error |-> "", violations |-> <<>>,
          canonical |-> canonical, parsed |-> parsed]

\* A parse_and_validate_structured_output that keeps the canonical text
\* postprocess_to_json_text wrote, whatever the fixers did.
ValidateFixedStale(post, fixed, schema) ==
    ValidatedResult(post.canonical, fixed.val, validate_against_schema(fixed.val, schema))

\* After the fixers ran: the canonical text is written again when one of
\* them changed the value, then the value is validated.
ValidateFixed(post, fixed, schema) ==
    ValidatedResult(IF fixed.changed THEN json_dumps(fixed.val) ELSE post.canonical,
                    fixed.val, validate_against_schema(fixed.val, schema))

ValidatePost(post, schema, trimmer_schema, model_id) ==
    IF ~post.ok THEN ParseFailed(post.error, <<>>)
    ELSE ValidateFixed(post, auto_fixers(trimmer_schema, model_id, post.parsed), schema)

parse_and_validate_structured_output(raw_text, schema, trimmer_schema, model_id) ==
    ValidatePost(postprocess_to_json_text(raw_text), schema, trimmer_schema, model_id)

\* ------------------------------------------------------------------------
\* SelectionStrategy (core/selector.py) and the registry's endpoint index.
\* A model is its spec: id, api.advertised_model_name (alias), api.endpoint,
\* compat.platforms, compat.priority, backend.provider, execution.mode.
\* ------------------------------------------------------------------------
\* What detect_platform may return.
Platforms == {"darwin-arm64", "darwin-x64", "windows-x64", "linux-x64"}

\* BackendSpec.provider and ExecutionSpec.mode
Providers == {"mlx", "hf", "ollama", "kokoro", "faster_whisper", "openai_proxy", "custom"}
Modes == {"inprocess", "subprocess", "http_proxy"}

is_platform_supported(spec, platform_id) == platform_id \in spec.platforms

\* SelectionStrategy._score
score_without_priority(platform_id, model) ==
    (IF platform_id = "darwin-arm64" /\ model.provider = "mlx" THEN 25
     ELSE IF platform_id # "darwin-arm64" /\ model.provider = "mlx" THEN 0 - 20
     ELSE 0)
    + (IF model.mode = "inprocess" THEN 5 ELSE 0)
    + (IF model.provider \in {"hf", "kokoro", "faster_whisper", "ollama", "chatterbox"}
       THEN 2 ELSE 0)

\* A _score whose bonus for mlx on darwin-arm64 is no more than the one for
\* in-process execution.
score_small_mlx_bonus(platform_id, model) ==
    model.priority
    + (IF platform_id = "darwin-arm64" /\ model.provider = "mlx" THEN 5
       ELSE IF platform_id # "darwin-arm64" /\ model.provider = "mlx" THEN 0 - 20
       ELSE 0)
    + (IF model.mode = "inprocess" THEN 5 ELSE 0)
    + (IF model.provider \in {"hf", "kokoro", "faster_whisper", "ollama", "chatterbox"}
       THEN 2 ELSE 0)

score(platform_id, model) == model.priority + score_without_priority(platform_id, model)

\* The list comprehension of select: the models of the endpoint that list
\* the platform, in the order of models.
candidates_of(platform_id, models, endpoint) ==
    SelectSeq(models, LAMBDA m : m.endpoint = endpoint /\ is_platform_supported(m, platform_id))

\* max(candidates, key=self._score): the first of the best-scored.
max_by_score(platform_id, candidates) ==
    candidates[CHOOSE i \in 1..Len(candidates) :
                  /\ \A h \in 1..Len(candidates) :
                        score(platform_id, candidates[h]) <= score(platform_id, candidates[i])
                  /\ \A h \in 1..(i - 1) :
                        score(platform_id, candidates[h]) < score(platform_id, candidates[i])]

Selected(model) == [outcome |-> "returned", model |-> model]
ModelNotFoundError == [outcome |-> "ModelNotFoundError", model |-> NoModel]

\* `if requested:` of a str | None
Requested(requested) == requested \notin {"None", ""}

Matches(model, requested) == model.id = requested \/ model.alias = requested

\* A select that answers an unmatched request with the scored default.
select_falls_back(platform_id, models, endpoint, requested) ==
    LET candidates == candidates_of(platform_id, models, endpoint)
        matching == SelectSeq(candidates, LAMBDA m : Matches(m, requested))
    IN IF Requested(requested) /\ matching # <<>> THEN Selected(matching[1])
       ELSE IF candidates = <<>> THEN ModelNotFoundError
       ELSE Selected(max_by_score(platform_id, candidates))

\* SelectionStrategy.select
select(platform_id, models, endpoint, requested) ==
    LET candidates == candidates_of(platform_id, models, endpoint)
        matching == SelectSeq(candidates, LAMBDA m : Matches(m, requested))
    IN IF Requested(requested)
       THEN IF matching # <<>> THEN Selected(matching[1]) ELSE ModelNotFoundError
       ELSE IF candidates = <<>> THEN ModelNotFoundError
       ELSE Selected(max_by_score(platform_id, candidates))

\* list.sort(key=priority, reverse=True): descending, equal priorities in
\* their original order.
sort_by_priority(models) ==
    LET n == Len(models)
        Rank(i) == Cardinality({h \in 1..n :
                        \/ models[h].priority > models[i].priority
                        \/ models[h].priority = models[i].priority /\ h < i}) + 1
    IN [r \in 1..n |-> models[CHOOSE i \in 1..n : Rank(i) = r]]

\* ModelRegistry._build_indexes: endpoint -> its models, best priority first.
models_by_endpoint(models) ==
    [e \in {models[i].endpoint : i \in 1..Len(models)} |->
        sort_by_priority(SelectSeq(models, LAMBDA m : m.endpoint = e))]

\* A compute_defaults without the try/except around select.
compute_defaults_unguarded(platform_id, by_endpoint) ==
    LET Pick(e) == select(platform_id, by_endpoint[e], e, "None")
    IN IF \E e \in DOMAIN by_endpoint : Pick(e).outcome # "returned"
       THEN [outcome |-> "ModelNotFoundError", defaults |-> <<>>]
       ELSE [outcome |-> "returned", defaults |-> [e \in DOMAIN by_endpoint |-> Pick(e).model.id]]

\* SelectionStrategy.compute_defaults: endpoint -> model id.
compute_defaults(platform_id, by_endpoint) ==
    LET Pick(e) == select(platform_id, by_endpoint[e], e, "None")
    IN [outcome |-> "returned",
        defaults |-> [e \in {x \in DOMAIN by_endpoint : Pick(x).outcome = "returned"} |->
                        Pick(e).model.id]]

\* Two models of one endpoint that both list the platform, priorities 100
\* and 50 in either catalog order, any provider and execution mode.
PriorityPairs(platform_id) ==
    {<<[id |-> "a", alias |-> "a-alias", endpoint |-> "responses",
        platforms |-> {platform_id}, priority |-> pr[1], provider |-> pa, mode |-> ma],
       [id |-> "b", alias |-> "b-alias", endpoint |-> "responses",
        platforms |-> {platform_id, "linux-x64"}, priority |-> pr[2], provider |-> pb,
        mode |-> mb]>> :
        pr \in {<<100, 50>>, <<50, 100>>}, pa \in Providers, pb \in Providers,
        ma \in Modes, mb \in Modes}

\* Catalog entries of any endpoint, platform list and priority; b may
\* advertise a's id as its name.
SpecsOf(id, aliases) ==
    [id : {id}, alias : aliases, endpoint : {"responses", "audio.speech"},
     platforms : {{"darwin-arm64"}, {"linux-x64"}, {"darwin-arm64", "linux-x64"}},
     priority : {50, 100}, provider : {"mlx", "hf"}, mode : {"inprocess"}]

MixedCatalogs ==
    {<<>>}
    \cup {<<a>> : a \in SpecsOf("a", {"a-alias"})}
    \cup {<<a, b>> : a \in SpecsOf("a", {"a-alias"}), b \in SpecsOf("b", {"b-alias", "a"})}

\* Two models of one endpoint that both list the platform, with priorities
\* five apart or equal, so that the in-process bonus can level their scores.
ClosePairs(platform_id) ==
    {<<[id |-> "a", alias |-> "a-alias", endpoint |-> "responses",
        platforms |-> {platform_id}, priority |-> pr[1], provider |-> pa, mode |-> ma],
       [id |-> "b", alias |-> "b-alias", endpoint |-> "responses",
        platforms |-> {platform_id}, priority |-> pr[2], provider |-> pb, mode |-> mb]>> :
        pr \in {<<95, 100>>, <<100, 95>>, <<100, 100>>}, pa \in {"custom", "mlx"},
        pb \in {"custom", "openai_proxy", "hf"}, ma \in {"inprocess", "subprocess"},
        mb \in {"inprocess", "subprocess"}}

SelectCatalogs(platform_id) ==
    PriorityPairs(platform_id)
    \cup ClosePairs(platform_id)
    \cup (IF platform_id \in {"darwin-arm64", "linux-x64"} THEN MixedCatalogs ELSE {})

\* What callers pass as requested: None, the empty string, ids, an alias
\* and an id no catalog has.
RequestedIds == {"None", "", "a", "b", "a-alias", "nonexistent-id"}

\* selection.select(models, endpoint, requested)
call_select(endpoint, requested) ==
    /\ selectCall.pc = "idle"
    /\ LET out == select(selectCall.platform_id, selectCall.models, endpoint, requested)
       IN selectCall' = [selectCall EXCEPT !.pc = "selected", !.endpoint = endpoint,
                                           !.requested = requested,
                                           !.outcome = out.outcome, !.model = out.model]
    /\ UNCHANGED <<loadVars, bootVars, respVars, schemaCall, selfTest, errorCall, registryCall>>

\* selection.compute_defaults(registry.models_by_endpoint)
call_compute_defaults ==
    /\ selectCall.pc = "idle"
    /\ LET out == compute_defaults(selectCall.platform_id,
                                   models_by_endpoint(selectCall.models))
       IN selectCall' = [selectCall EXCEPT !.pc = "defaults", !.outcome = out.outcome,
                                           !.defaults = out.defaults]
    /\ UNCHANGED <<loadVars, bootVars, respVars, schemaCall, selfTest, errorCall, registryCall>>

\* ModelSpec (spec.py), as far as execution and launch go.  A launch
\* descriptor is None or a LaunchSpec, given here by its type; anything else
\* fails the field's own validation.
ExecutionModes == {"inprocess", "subprocess", "http_proxy"}

LaunchTypes == {"command", "external"}

\* A _validate_launch that knows of subprocess only.
validate_launch_subprocess_only(mode, launch) ==
    IF mode = "subprocess" /\ launch = "None"
    THEN "launch is required for subprocess/http_proxy execution"
    ELSE "ok"

\* ModelSpec._validate_launch: the ValueError's message, or ok.
validate_launch(mode, launch) ==
    IF mode \in {"subprocess", "http_proxy"} /\ launch = "None"
    THEN "launch is required for subprocess/http_proxy execution"
    ELSE "ok"

\* ModelSpec.model_validate of a spec whose other fields are valid: the
\* fields are validated first (Literal mode, Optional[LaunchSpec]), then the
\* mode="after" validator runs; pydantic turns its ValueError into a
\* ValidationError.
model_validate(mode, launch) ==
    IF mode \notin ExecutionModes THEN "ValidationError: literal_error"
    ELSE IF launch # "None" /\ launch \notin LaunchTypes THEN "ValidationError: literal_error"
    ELSE IF validate_launch(mode, launch) # "ok"
         THEN "ValidationError: launch is required for subprocess/http_proxy execution"
         ELSE "validated"

\* The modes and launch descriptors a model module's SPEC may carry.
SpecModes == ExecutionModes \cup {"thread"}

SpecLaunches == {"None"} \cup LaunchTypes \cup {"docker"}

\* loader.discover_modules: ModelSpec.model_validate(spec_dict)
call_model_validate(mode, launch) ==
    /\ selectCall.pc = "idle"
    /\ selectCall' = [selectCall EXCEPT !.pc = "validated", !.mode = mode, !.launch = launch,
                                        !.outcome = model_validate(mode, launch)]
    /\ UNCHANGED <<loadVars, bootVars, respVars, schemaCall, selfTest, errorCall, registryCall>>

\* registry.get_loaded(model_id) finds a model that lists the platform.
LoadedAndSupported(platform_id, models, model_id) ==
    \E i \in 1..Len(models) :
        models[i].id = model_id /\ is_platform_supported(models[i], platform_id)

\* lifespan, from ModelRegistry(...) to registry.set_defaults(defaults):
\* the computed defaults, then every entry of config.default_models whose
\* endpoint the registry knows and whose model is loaded and lists the
\* platform.
lifespan_defaults(platform_id, models, user_defaults) ==
    LET by_endpoint == models_by_endpoint(models)
        computed == compute_defaults(platform_id, by_endpoint).defaults
        overridden == {e \in DOMAIN user_defaults :
                          /\ e \in DOMAIN by_endpoint
                          /\ LoadedAndSupported(platform_id, models, user_defaults[e])}
    IN [e \in DOMAIN computed \cup overridden |->
            IF e \in overridden THEN user_defaults[e] ELSE computed[e]]

\* config.default_models: nothing, or one endpoint (of the catalog or not)
\* set to a model id (of the catalog or not).
UserDefaults ==
    {<<>>} \cup {[x \in {e} |-> id] : e \in {"responses", "audio.speech", "embeddings"},
                                      id \in {"a", "b", "nonexistent-id"}}

\* The defaults part of lifespan with config.default_models = user_defaults.
call_lifespan_defaults(user_defaults) ==
    /\ selectCall.pc = "idle"
    /\ selectCall' = [selectCall EXCEPT
            !.pc = "booted", !.outcome = "returned",
            !.defaults = lifespan_defaults(selectCall.platform_id, selectCall.models,
                                           user_defaults)]
    /\ UNCHANGED <<loadVars, bootVars, respVars, schemaCall, selfTest, errorCall, registryCall>>

SelectNext ==
    \/ \E user_defaults \in UserDefaults : call_lifespan_defaults(user_defaults)
    \/ \E endpoint \in {"responses", "audio.speech"}, requested \in RequestedIds :
            call_select(endpoint, requested)
    \/ call_compute_defaults
    \/ \E mode \in SpecModes, launch \in SpecLaunches : call_model_validate(mode, launch)

\* ------------------------------------------------------------------------
\* StructuredOutputEnforcer and POST /v1/responses
\* (helpers/structured_enforcer.py, main.py)
\* ------------------------------------------------------------------------
DEFAULT_MAX_ATTEMPTS == 4

\* StructuredOutputEnforcer.__init__: max(1, DEFAULT_MAX_ATTEMPTS)
max_attempts == IF DEFAULT_MAX_ATTEMPTS > 1 THEN DEFAULT_MAX_ATTEMPTS ELSE 1

\* What a backend's run() returns: None, a str, a dict with "output_text",
\* or a dict whose "output" list holds one entry with one output_text item.
NoneResult == [kind |-> "none", text |-> <<>>]
StrResult(text) == [kind |-> "str", text |-> text]
OutputTextResult(text) == [kind |-> "output_text", text |-> text]
ContentResult(text) == [kind |-> "content", text |-> text]

\* extract_output_text: NoText stands for None.
extract_output_text(payload) ==
    CASE payload.kind = "none" -> NoText
      [] payload.kind = "str" -> SomeText(payload.text)
      [] payload.kind \in {"output_text", "content"} ->
            IF Strip(payload.text) # <<>> THEN SomeText(payload.text) ELSE NoText

\* _coerce_bool for an absent or boolean value
coerce_bool(value, default) == IF value.set THEN value.v ELSE default

\* LOCAL_RUNTIME_STRUCTURED_SCHEMA_MAX_BYTES as the operator set it (the
\* default is 256 * 1024).
MAX_SCHEMA_BYTES == 100

\* len(json.dumps(schema, ensure_ascii=False).encode("utf-8")) for ASCII
\* content: the default separators ", " and ": ", keys in insertion order.
RECURSIVE schema_bytes(_), ItemsBytes(_, _), MembersBytes(_, _)
schema_bytes(val) ==
    CASE val.t = "null" -> 4
      [] val.t = "bool" -> (IF val.b THEN 4 ELSE 5)
      [] val.t = "num" -> Len(IntChars(val.n))
      [] val.t = "str" -> Len(Quoted(val.s))
      [] val.t = "arr" -> 2 + ItemsBytes(val.v, 1)
      [] val.t = "obj" -> 2 + MembersBytes(val, 1)

ItemsBytes(items, i) ==
    IF i > Len(items) THEN 0
    ELSE (IF i > 1 THEN 2 ELSE 0) + schema_bytes(items[i]) + ItemsBytes(items, i + 1)

MembersBytes(obj, i) ==
    IF i > Len(obj.k) THEN 0
    ELSE (IF i > 1 THEN 2 ELSE 0) + Len(Quoted(obj.k[i])) + 2
            + schema_bytes(obj.v[i]) + MembersBytes(obj, i + 1)

\* detect_structured_mode for a payload whose text.format is absent
\* (kind "none") or of type json_schema: the config, no config, or ValueError.
detect_structured_mode(fmt) ==
    IF fmt.kind # "json_schema"
    THEN [outcome |-> "none", config |-> RespIdle.config]
    ELSE IF fmt.schema.t # "obj"
    THEN [outcome |-> "ValueError", config |-> RespIdle.config]
    ELSE IF schema_bytes(fmt.schema) > MAX_SCHEMA_BYTES
    THEN [outcome |-> "ValueError", config |-> RespIdle.config]
    ELSE LET strict == coerce_bool(fmt.strict, TRUE)
         IN [outcome |-> "config",
             config |-> [schema |-> fmt.schema,
                         effective_schema |-> IF strict THEN make_openai_strict_schema(fmt.schema)
                                              ELSE fmt.schema,
                         strict |-> strict]]

SnippetLimit == 400

\* str.replace("\n", " ")
NewlinesToSpaces(text) == [i \in 1..Len(text) |-> IF text[i] = "\n" THEN " " ELSE text[i]]

\* _clean_snippet
clean_snippet(text) ==
    LET snippet == NewlinesToSpaces(Strip(text))
    IN IF Len(snippet) > SnippetLimit
       THEN SubSeq(snippet, 1, SkipWsBack(snippet, SnippetLimit)) \o <<".", ".", ".">>
       ELSE snippet

Message(role, kind) ==
    [role |-> role, kind |-> kind, attempt |-> 0, reason |-> NoError, snippet |-> <<>>]

\* normalize_messages(payload) for a payload with one user input, then the
\* guard message build_structured_output_guard writes.
base_messages == <<Message("user", "input"), Message("system", "guard")>>

\* build_retry_feedback as the system message the enforcer appends: its text
\* names the attempt, the reason and the snippet.
build_retry_feedback(attempt, reason, bad_snippet) ==
    [role |-> "system", kind |-> "retry", attempt |-> attempt,
     reason |-> IF reason.reason = "" THEN [reason EXCEPT !.reason = "invalid output"] ELSE reason,
     snippet |-> clean_snippet(bad_snippet)]

Min(x, y) == IF x <= y THEN x ELSE y

\* Floats are counted in hundredths; NAN stands for float("nan"), which a
\* payload carries as the JSON literal NaN or as the string "nan".
NAN == 100000

\* x < y on floats: every comparison with nan is false.
FloatLess(x, y) == x # NAN /\ y # NAN /\ x < y

\* min(x, y) of Python: x, unless y is less than x.
py_min(x, y) == IF FloatLess(y, x) THEN y ELSE x

\* _apply_retry_sampling: min(float(temperature or 0.2), 0.2) and
\* min(float(top_p or 0.5), 0.5).
apply_retry_sampling(payload) ==
    [payload EXCEPT
        !.temperature = Val(py_min(IF @.set THEN @.v ELSE 20, 20)),
        !.top_p = Val(py_min(IF @.set THEN @.v ELSE 50, 50))]

\* The payload of one attempt (enforcer.run, lines 185-190).
attempt_payload(r, attempt, retry_messages) ==
    LET first == [attempt |-> attempt, messages |-> base_messages \o retry_messages,
                  stream |-> FALSE, temperature |-> r.temperature, top_p |-> r.top_p]
    IN IF attempt >= 2 THEN apply_retry_sampling(first) ELSE first

\* One attempt's verdict on what run() returned (enforcer.run, lines 197-216).
attempt_outcome(result, config, model_id) ==
    LET output_text == extract_output_text(result)
    IN IF ~output_text.ok \/ output_text.text = <<>>
       THEN ParseFailed("missing_output_text", <<>>)
       ELSE parse_and_validate_structured_output(output_text.text, config.effective_schema,
                                                 config.schema, model_id)

\* `if attempt >= self.max_attempts: break`
LastAttemptEarly(attempt) == attempt >= max_attempts - 1

LastAttemptLate(attempt) == attempt >= max_attempts + 1

LastAttempt(attempt) == attempt >= max_attempts

\* A format_error whose default status ignores the error type.
format_error_always_500(message, err_type, status_code) ==
    [status |-> IF status_code.set THEN status_code.v ELSE 500,
     err_type |-> err_type, message |-> message,
     media |-> "application/json", text |-> <<>>]

\* format_error: the envelope {error: {message, type, param, code}} with the
\* given status, or the status the type implies when none is given.
format_error(message, err_type, status_code) ==
    [status |-> IF status_code.set THEN status_code.v
                ELSE IF err_type = "invalid_request_error" THEN 400
                ELSE IF err_type = "not_found" THEN 404
                ELSE 500,
     err_type |-> err_type, message |-> message,
     media |-> "application/json", text |-> <<>>]

\* The 200 answer carrying text: an event stream when the caller asked for
\* one, a JSON body otherwise.
Answer(text, stream) ==
    [status |-> 200, err_type |-> "", message |-> NoError,
     media |-> IF stream THEN "text/event-stream" ELSE "application/json", text |-> text]

\* stream_events slices the text into chunks of this many characters.
ChunkSize == 30

\* [text[i : i + 30] for i in range(0, len(text), 30)] with a stride one short
\* of the chunk length.
chunks_overlapping(text) ==
    [i \in 1..((Len(text) + ChunkSize - 2) \div (ChunkSize - 1)) |->
        SubSeq(text, (ChunkSize - 1) * (i - 1) + 1,
               Min((ChunkSize - 1) * (i - 1) + ChunkSize, Len(text)))]

\* [text[i : i + 30] for i in range(0, len(text), 30)]
chunks(text) ==
    [i \in 1..((Len(text) + ChunkSize - 1) \div ChunkSize) |->
        SubSeq(text, ChunkSize * (i - 1) + 1, Min(ChunkSize * i, Len(text)))]

Event(name, data) == [event |-> name, data |-> data]

\* stream_events / stream_validated_json: the events replayed over a text.
\* The data of created and completed is the response object, whose
\* output_text is empty.
stream_events(text) ==
    <<Event("response.created", <<>>)>>
    \o [i \in 1..Len(chunks(text)) |-> Event("response.output_text.delta", chunks(text)[i])]
    \o <<Event("response.output_text.done", text), Event("response.completed", <<>>)>>

\* One frame of the event stream: "event: <event>\ndata: <json of data>\n\n".
Frame(event, data) == [event |-> event, data |-> data]

\* The frame "data: [DONE]\n\n", which carries no event line.
DoneFrame == Frame("None", <<"[", "D", "O", "N", "E", "]">>)

\* format_responses_stream: one frame per event of the iterator, in its
\* order; an event without a name goes out as "message".
format_responses_stream(events_iter) ==
    [i \in 1..Len(events_iter) |->
        Frame(IF events_iter[i].event = "None" THEN "message" ELSE events_iter[i].event,
              events_iter[i].data)]

\* The schemas callers send.
Str_a == <<"a">>
Str_b == <<"b">>
TypeOnly(name) == JObj(<<K_type>>, <<JStr(name)>>)

\* {"type":"object","properties":{"a":{"type":"number"}}}
SchemaNumber ==
    JObj(<<K_type, K_properties>>,
         <<JStr(T_object), JObj(<<Str_a>>, <<TypeOnly(T_number)>>)>>)

\* {"type":"object","properties":{"a":{"type":"array","maxItems":2}}}
SchemaList ==
    JObj(<<K_type, K_properties>>,
         <<JStr(T_object),
           JObj(<<Str_a>>, <<JObj(<<K_type, K_maxItems>>, <<JStr(T_array), JNum(2)>>)>>)>>)

\* {"type":"object","properties":{"b":{"type":"number"}},"required":["b"]}
SchemaRequired ==
    JObj(<<K_type, K_properties, K_required>>,
         <<JStr(T_object), JObj(<<Str_b>>, <<TypeOnly(T_number)>>), JArr(<<JStr(Str_b)>>)>>)

ObjectSchemas == {SchemaNumber, SchemaList, SchemaRequired}

\* {"type":"object","properties":{"diagnostics":{"type":"object"}}}
SchemaDiagnostics ==
    JObj(<<K_type, K_properties>>,
         <<JStr(T_object), JObj(<<K_diagnostics>>, <<TypeOnly(T_object)>>)>>)

\* {"type": "object", "title": "x...x"} with a title of n characters: 31 + n
\* bytes when serialized.
SchemaTitled(n) ==
    JObj(<<K_type, <<"t", "i", "t", "l", "e">>>>, <<JStr(T_object), JStr([i \in 1..n |-> "x"])>>)

\* An object schema of exactly MAX_SCHEMA_BYTES bytes, and one a byte longer.
SchemaAtLimit == SchemaTitled(MAX_SCHEMA_BYTES - 31)
SchemaOverLimit == SchemaTitled(MAX_SCHEMA_BYTES - 30)

\* text.format of the request: absent, json_schema with an object schema and
\* strict absent or false, or json_schema with a schema that is no object.
Formats ==
    {[kind |-> "none", schema |-> JNull, strict |-> NotSet],
     [kind |-> "json_schema", schema |-> SchemaNumber, strict |-> NotSet],
     [kind |-> "json_schema", schema |-> SchemaNumber, strict |-> Val(FALSE)],
     [kind |-> "json_schema", schema |-> SchemaList, strict |-> NotSet],
     [kind |-> "json_schema", schema |-> SchemaRequired, strict |-> Val(FALSE)],
     [kind |-> "json_schema", schema |-> JArr(<<>>), strict |-> NotSet],
     [kind |-> "json_schema", schema |-> SchemaDiagnostics, strict |-> Val(FALSE)],
     [kind |-> "json_schema", schema |-> SchemaAtLimit, strict |-> Val(FALSE)],
     [kind |-> "json_schema", schema |-> SchemaOverLimit, strict |-> Val(FALSE)]}

\* The rest of the request payload: stream, and the caller's temperature and
\* top_p in hundredths.
Samplings == {[stream |-> FALSE, temperature |-> NotSet, top_p |-> NotSet],
              [stream |-> TRUE, temperature |-> Val(70), top_p |-> Val(30)],
              [stream |-> FALSE, temperature |-> Val(NAN), top_p |-> Val(10)]}

ThinkingThenTrailingComma ==
    <<"<", "t", "h", "i", "n", "k", "i", "n", "g", ">", "p", "l", "a", "n",
      "<", "/", "t", "h", "i", "n", "k", "i", "n", "g", ">",
      "{", "\"", "a", "\"", ":", "1", ",", "}">>

HelloWorld == <<"h", "e", "l", "l", "o", " ", "w", "o", "r", "l", "d">>

\* {"b":2}
ObjectB == <<"{", "\"", "b", "\"", ":", "2", "}">>

\* {"a":[1,2,3]}
ObjectLongList == <<"{", "\"", "a", "\"", ":", "[", "1", ",", "2", ",", "3", "]", "}">>

\* {"a":1,"b":"xxxxxxxxxxxxxxxxxxxxxxxxx"}: 39 characters
ObjectLongString ==
    <<"{", "\"", "a", "\"", ":", "1", ",", "\"", "b", "\"", ":", "\"">>
    \o [i \in 1..25 |-> "x"] \o <<"\"", "}">>

\* What the backend's run() may return on an attempt.
BackendResults ==
    {StrResult(ThinkingThenTrailingComma), StrResult(HelloWorld), StrResult(ObjectB),
     StrResult(ObjectLongList), StrResult(ObjectLongString), StrResult(<<>>), NoneResult}

\* registry.selected_defaults.get(endpoint)
default_of(defaults, endpoint) ==
    IF endpoint \in DOMAIN defaults THEN defaults[endpoint] ELSE "None"

\* _resolve_requested_model
resolve_requested_model(defaults, endpoint, requested) ==
    IF Requested(requested) THEN requested ELSE default_of(defaults, endpoint)

\* _select_model: the endpoint's models from the registry index, then
\* selection.select with the requested id or the endpoint's default.
select_model(platform_id, models, defaults, endpoint, requested) ==
    LET by_endpoint == models_by_endpoint(models)
    IN IF endpoint \notin DOMAIN by_endpoint THEN ModelNotFoundError
       ELSE select(platform_id, by_endpoint[endpoint], endpoint,
                   resolve_requested_model(defaults, endpoint, requested))

\* POST /v1/responses up to its first await of the backend's run().  The
\* registry's catalog, platform and defaults are those of selectCall.  A run
\* follows one call: the request, or a direct call of format_error.
responses_request(requested, fmt, sampling) ==
    /\ resp.pc = "idle"
    /\ errorCall.pc = "idle"
    /\ LET selected == select_model(selectCall.platform_id, selectCall.models,
                                    selectCall.defaults, "responses", requested)
           detected == detect_structured_mode(fmt)
           r0 == [resp EXCEPT !.stream = sampling.stream, !.temperature = sampling.temperature,
                              !.top_p = sampling.top_p, !.requested = requested,
                              !.format = fmt,
                              !.model_id = selected.model.id]
       IN resp' =
            IF selected.outcome # "returned"
            THEN [r0 EXCEPT !.pc = "done",
                            !.http = format_error(NoError, "not_found", Val(404))]
            ELSE IF detected.outcome = "ValueError"
            THEN [r0 EXCEPT !.pc = "done",
                            !.http = format_error(NoError, "invalid_request_error", Val(400))]
            ELSE IF detected.outcome = "none"
            THEN [r0 EXCEPT !.pc = "awaiting_plain_run"]
            ELSE [r0 EXCEPT !.pc = "awaiting_run", !.config = detected.config,
                            !.attempt = 1,
                            !.last_error = [reason |-> "structured_output_failed",
                                            violations |-> <<>>],
                            !.sent = <<attempt_payload(r0, 1, <<>>)>>]
    /\ UNCHANGED <<loadVars, bootVars, callVars>>

\* A retry that sends the latest corrective message alone.
next_attempt_latest_only(r, retry_messages) ==
    [r EXCEPT !.retry_messages = retry_messages,
              !.attempt = @ + 1,
              !.sent = Append(@, attempt_payload(r, r.attempt + 1,
                                    <<retry_messages[Len(retry_messages)]>>))]

\* A failed attempt that was not the last: the corrective message is
\* appended and the next attempt's payload goes to the backend.
next_attempt(r, retry_messages) ==
    [r EXCEPT !.retry_messages = retry_messages,
              !.attempt = @ + 1,
              !.sent = Append(@, attempt_payload(r, r.attempt + 1, retry_messages))]

\* enforcer.run after a failed attempt (lines 217-232).
after_failure(r, output_text, last_error) ==
    IF LastAttempt(r.attempt)
    THEN [r EXCEPT !.pc = "done", !.last_error = last_error,
                   !.raised = "StructuredOutputFailure",
                   !.http = format_error(last_error, "invalid_request_error", Val(422))]
    ELSE next_attempt([r EXCEPT !.last_error = last_error],
                      Append(r.retry_messages,
                             build_retry_feedback(r.attempt, last_error,
                                 IF output_text.ok THEN output_text.text ELSE <<>>)))

\* enforcer.run once run() has returned and the output was judged.
after_attempt(r, result, out) ==
    IF out.ok
    THEN [r EXCEPT !.pc = "done",
                   !.outputs = Append(@, result),
                   !.result = [canonical_text |-> out.canonical, parsed |-> out.parsed,
                               attempts |-> r.attempt],
                   !.http = Answer(out.canonical, r.stream),
                   !.events = IF r.stream THEN stream_events(out.canonical) ELSE <<>>,
                   !.frames = IF r.stream
                              THEN format_responses_stream(stream_events(out.canonical))
                              ELSE <<>>]
    ELSE after_failure([r EXCEPT !.outputs = Append(@, result)],
                       extract_output_text(result),
                       [reason |-> out.error, violations |-> out.violations])

\* run() returned on an enforcer attempt: accept, give up, or retry.
enforcer_run_returns(result) ==
    /\ resp.pc = "awaiting_run"
    /\ resp' = after_attempt(resp, result, attempt_outcome(result, resp.config, resp.model_id))
    /\ UNCHANGED <<loadVars, bootVars, callVars>>

\* An enforcer that catches what run() raises and goes on to the next
\* attempt while it has one.
enforcer_run_raises_retried(exc) ==
    /\ resp.pc = "awaiting_run"
    /\ resp' = IF LastAttempt(resp.attempt)
               THEN [resp EXCEPT !.pc = "done", !.raised = exc]
               ELSE next_attempt([resp EXCEPT !.raised = exc], resp.retry_messages)
    /\ UNCHANGED <<loadVars, bootVars, callVars>>

\* run() raised on an enforcer attempt: nothing in enforcer.run catches it.
\* The endpoint answers a RuntimeError with 500; any other exception leaves
\* the handler.
enforcer_run_raises(exc) ==
    /\ resp.pc = "awaiting_run"
    /\ resp' = [resp EXCEPT !.pc = "done", !.raised = exc,
                            !.http = IF exc = "RuntimeError"
                                     THEN format_error(NoError, "server_error", Val(500))
                                     ELSE NoResponse]
    /\ UNCHANGED <<loadVars, bootVars, callVars>>

\* run() returned for a request without a json_schema format.  For a
\* streaming request the result is the backend's event iterator, which the
\* bundled backends build with stream_events over their reply.
plain_run_returns(result) ==
    /\ resp.pc = "awaiting_plain_run"
    /\ resp' = [resp EXCEPT !.pc = "done", !.outputs = Append(@, result),
                            !.http = Answer(result.text, resp.stream),
                            !.events = IF resp.stream THEN stream_events(result.text) ELSE <<>>,
                            !.frames = IF resp.stream
                                       THEN format_responses_stream(stream_events(result.text))
                                       ELSE <<>>]
    /\ UNCHANGED <<loadVars, bootVars, callVars>>

\* run() raised for a request without a json_schema format.
plain_run_raises(exc) ==
    /\ resp.pc = "awaiting_plain_run"
    /\ resp' = [resp EXCEPT !.pc = "done", !.raised = exc]
    /\ UNCHANGED <<loadVars, bootVars, callVars>>

BackendExceptions == {"RuntimeError", "Exception"}

\* format_error called with an error type and, or without, a status.
call_format_error(err_type, status_code) ==
    /\ errorCall.pc = "idle"
    /\ resp.pc = "idle"
    /\ errorCall' = [pc |-> "formatted", err_type |-> err_type, status_code |-> status_code,
                     http |-> format_error(NoError, err_type, status_code)]
    /\ UNCHANGED <<loadVars, bootVars, respVars, schemaCall, selectCall, selfTest, registryCall>>

ErrorTypes == {"invalid_request_error", "not_found", "server_error", "rate_limit_error"}
StatusCodes == {NotSet, Val(400), Val(404), Val(422), Val(500)}

\* What payload.get("model") may be: absent, an id, an advertised name, the
\* id of a model the platform cannot run, an id no model has.
ServedRequests == {"None", "a", "a-alias", "b", "nonexistent-id"}

ResponsesNext ==
    \/ \E requested \in ServedRequests, fmt \in Formats, sampling \in Samplings :
            responses_request(requested, fmt, sampling)
    \/ \E err_type \in ErrorTypes, status_code \in StatusCodes :
            call_format_error(err_type, status_code)
    \/ \E result \in BackendResults : enforcer_run_returns(result)
    \/ \E exc \in BackendExceptions : enforcer_run_raises(exc)
    \/ \E result \in BackendResults : plain_run_returns(result)
    \/ \E exc \in BackendExceptions : plain_run_raises(exc)

\* ------------------------------------------------------------------------
\* The schema helpers called directly (helpers/structured_output.py), as the
\* enforcer and the unit tests call them.
\* ------------------------------------------------------------------------
Str_c == <<"c">>

NumberProps(keys) == JObj(keys, [i \in 1..Len(keys) |-> TypeOnly(T_number)])

\* {"type":"object","properties":{"a":{"type":"number"}},"additionalProperties":true}
SchemaOpen ==
    JObj(<<K_type, K_properties, K_additionalProperties>>,
         <<JStr(T_object), NumberProps(<<Str_a>>), JBool(TRUE)>>)

\* {"type":"object","properties":{"a":{"type":"number"},"b":{"type":"number"}},"required":["b"]}
SchemaTwoKeys ==
    JObj(<<K_type, K_properties, K_required>>,
         <<JStr(T_object), NumberProps(<<Str_a, Str_b>>), JArr(<<JStr(Str_b)>>)>>)

\* {"type":"object","properties":{"a":{"type":"object","properties":{"b":{"type":"number"}}}}}
SchemaNested ==
    JObj(<<K_type, K_properties>>,
         <<JStr(T_object),
           JObj(<<Str_a>>, <<JObj(<<K_type, K_properties>>,
                                  <<JStr(T_object), NumberProps(<<Str_b>>)>>)>>)>>)

\* {"type":"array","items":{"type":"object","properties":{"a":{"type":"number"}}}}
SchemaItems == JObj(<<K_type, K_items>>, <<JStr(T_array), SchemaNumber>>)

\* {"anyOf":[{"type":"object","properties":{"a":{"type":"number"}}},{"type":"null"}]}
SchemaAnyOf == JObj(<<K_anyOf>>, <<JArr(<<SchemaNumber, TypeOnly(T_null)>>)>>)

\* {"type":"array","maxItems":1,"items":{"type":"number"}}
SchemaRootArray ==
    JObj(<<K_type, K_maxItems, K_items>>, <<JStr(T_array), JNum(1), TypeOnly(T_number)>>)

\* {"type":"array","maxItems":n}
BoundedArray(n) == JObj(<<K_type, K_maxItems>>, <<JStr(T_array), JNum(n)>>)

\* {"type":"object","properties":{"a":{"type":"array","items":
\*     {"type":"object","properties":{"b":{"type":"array","maxItems":1}}}}}}
SchemaWildcard ==
    JObj(<<K_type, K_properties>>,
         <<JStr(T_object),
           JObj(<<Str_a>>,
                <<JObj(<<K_type, K_items>>,
                       <<JStr(T_array),
                         JObj(<<K_type, K_properties>>,
                              <<JStr(T_object), JObj(<<Str_b>>, <<BoundedArray(1)>>)>>)>>)>>)>>)

\* {"type":"array","items":{"type":"array","maxItems":1}}
SchemaArrayOfArrays == JObj(<<K_type, K_items>>, <<JStr(T_array), BoundedArray(1)>>)

\* The schemas callers have rewritten for strict mode.
CallerSchemas ==
    {SchemaNumber, SchemaRequired, SchemaOpen, SchemaTwoKeys, SchemaNested, SchemaItems,
     SchemaAnyOf, TypeOnly(T_object), SchemaList}

\* The schemas array trimmers are built from.
TrimmerSchemas ==
    {SchemaNumber, SchemaNested, SchemaList, SchemaRootArray, SchemaWildcard,
     SchemaArrayOfArrays}

Nums(ns) == JArr([i \in 1..Len(ns) |-> JNum(ns[i])])

\* The parsed values the helpers are called with.
ParsedValues ==
    {JObj(<<>>, <<>>),                                         \* {}
     JObj(<<Str_a>>, <<JNum(1)>>),                             \* {"a":1}
     JObj(<<Str_a, Str_b>>, <<JNum(1), JNum(2)>>),             \* {"a":1,"b":2}
     JObj(<<Str_b>>, <<JNum(2)>>),                             \* {"b":2}
     JObj(<<Str_a>>, <<JObj(<<Str_b, Str_c>>, <<JNum(1), JNum(2)>>)>>),  \* {"a":{"b":1,"c":2}}
     JObj(<<Str_a>>, <<JObj(<<>>, <<>>)>>),                    \* {"a":{}}
     JArr(<<JObj(<<Str_a, Str_b>>, <<JNum(1), JNum(2)>>)>>),   \* [{"a":1,"b":2}]
     JArr(<<JObj(<<>>, <<>>)>>),                               \* [{}]
     JObj(<<Str_a>>, <<Nums(<<1, 2, 3>>)>>),                   \* {"a":[1,2,3]}
     JObj(<<Str_a>>, <<Nums(<<1, 2>>)>>),                      \* {"a":[1,2]}
     Nums(<<1, 2, 3>>),                                        \* [1,2,3]
     JArr(<<Nums(<<1, 2>>), Nums(<<3>>)>>),                    \* [[1,2],[3]]
     JObj(<<Str_a>>,                                           \* {"a":[{"b":[1,2]},{"b":[3]}]}
          <<JArr(<<JObj(<<Str_b>>, <<Nums(<<1, 2>>)>>),
                   JObj(<<Str_b>>, <<Nums(<<3>>)>>)>>)>>),
     JNull}

\* schema = make_openai_strict_schema(caller_schema)
call_make_openai_strict_schema(schema) ==
    /\ schemaCall.pc = "idle"
    /\ schemaCall' = [schemaCall EXCEPT !.pc = "rewritten", !.schema = schema,
                                        !.effective = make_openai_strict_schema(schema)]
    /\ UNCHANGED <<loadVars, bootVars, respVars, selectCall, selfTest, errorCall, registryCall>>

\* errors = validate_against_schema(value, schema) on the rewritten schema
call_validate_against_schema(payload) ==
    /\ schemaCall.pc = "rewritten"
    /\ schemaCall' = [schemaCall EXCEPT
            !.pc = "validated", !.payload = payload,
            !.violations = validate_against_schema(payload, schemaCall.effective)]
    /\ UNCHANGED <<loadVars, bootVars, respVars, selectCall, selfTest, errorCall, registryCall>>

\* fixer = build_schema_array_trimmer(schema); changed = fixer(payload)
call_schema_array_trimmer(schema, payload) ==
    /\ schemaCall.pc = "idle"
    /\ LET fixed == build_schema_array_trimmer(schema, payload)
       IN schemaCall' = [schemaCall EXCEPT !.pc = "trimmed", !.schema = schema,
                                           !.payload = payload, !.trimmed = fixed.val,
                                           !.changed = fixed.changed]
    /\ UNCHANGED <<loadVars, bootVars, respVars, selectCall, selfTest, errorCall, registryCall>>

\* Texts _autoclose_json is handed: truncated JSON, brackets inside
\* strings, an unterminated string, a closing bracket that closes nothing.
\* {"a": {"b": [1, 2}
AcInnerArray == <<"{", "\"", "a", "\"", ":", " ", "{", "\"", "b", "\"", ":", " ", "[", "1", ",", " ", "2", "}">>

\* {"a": [1, 2
AcOpenArray == <<"{", "\"", "a", "\"", ":", " ", "[", "1", ",", " ", "2">>

\* {"quote": "["}
AcQuotedBracket == <<"{", "\"", "q", "u", "o", "t", "e", "\"", ":", " ", "\"", "[", "\"", "}">>

\* {"a": "x
AcOpenString == <<"{", "\"", "a", "\"", ":", " ", "\"", "x">>

\* {"a": "x\"]
AcEscapedQuote == <<"{", "\"", "a", "\"", ":", " ", "\"", "x", "\\", "\"", "]">>

\* [{"a": [1
AcNested == <<"[", "{", "\"", "a", "\"", ":", " ", "[", "1">>

\* 1]
AcStray == <<"1", "]">>

\* [{"a": 1]
AcInnerObject == <<"[", "{", "\"", "a", "\"", ":", " ", "1", "]">>

AutocloseTexts ==
    {AcInnerArray, AcOpenArray, AcQuotedBracket, AcOpenString,
     AcEscapedQuote, AcNested, AcStray, AcInnerObject}

\* repaired = _autoclose_json(text)
call_autoclose_json(text) ==
    /\ schemaCall.pc = "idle"
    /\ schemaCall' = [schemaCall EXCEPT !.pc = "autoclosed", !.text = text,
                                        !.repaired = autoclose_json(text)]
    /\ UNCHANGED <<loadVars, bootVars, respVars, selectCall, selfTest, errorCall, registryCall>>

SchemaNext ==
    \/ \E text \in AutocloseTexts : call_autoclose_json(text)
    \/ \E schema \in CallerSchemas : call_make_openai_strict_schema(schema)
    \/ \E payload \in ParsedValues : call_validate_against_schema(payload)
    \/ \E schema \in TrimmerSchemas, payload \in ParsedValues :
            call_schema_array_trimmer(schema, payload)

\* ------------------------------------------------------------------------
\* run_startup_self_test (core/selftest.py) called on a registry, the
\* selected defaults and a tracker.  Every model's endpoint is one
\* _build_run_request supports, so no check is skipped.
\* ------------------------------------------------------------------------
\* What one check can meet: run() returns a result that passes the check's
\* validation, returns one that fails it (AssertionError, or an error while
\* reading the stream), or raises an Exception.
CheckOutcomes == {"valid", "invalid", "raises"}

\* The status and the detail a check is recorded with: ok, or error with
\* str(exc) of the AssertionError or of the backend's exception.
check_status(outcome) == IF outcome = "valid" THEN "ok" ELSE "error"

check_detail(outcome) ==
    IF outcome = "valid" THEN "None"
    ELSE IF outcome = "invalid" THEN "AssertionError" ELSE "boom"

\* Lines 176-178, with a final status that ignores strictness.
final_status_lenient(failed, strict) == IF failed THEN "degraded" ELSE "ok"

\* Lines 176-178
final_status(failed, strict) ==
    IF failed THEN (IF strict THEN "error" ELSE "degraded") ELSE "ok"

\* Lines 176-181: finish_self_test, then RuntimeError when strict and failed.
self_test_end(t, run) ==
    [t |-> finish_self_test(t, final_status(run.failed, run.strict)),
     run |-> IF run.failed /\ run.strict
             THEN [run EXCEPT !.pc = "raised", !.raised = "RuntimeError"]
             ELSE [run EXCEPT !.pc = "returned"]]

\* run_startup_self_test up to its first await of a backend.
self_test_begin(strict, defaults) ==
    /\ selfTest.pc = "idle"
    /\ LET t1 == begin_self_test(readiness)
           run == [selfTest EXCEPT !.strict = strict, !.defaults = defaults,
                                   !.plan = SelfTestPlan(defaults),
                                   !.status_before = readiness.status]
           out == IF RegisteredIds = {}
                  THEN [t |-> finish_self_test(t1, IF strict THEN "error" ELSE "degraded"),
                        run |-> [run EXCEPT !.pc = "returned"]]
                  ELSE IF run.plan = <<>> THEN self_test_end(t1, run)
                  ELSE [t |-> t1, run |-> [run EXCEPT !.pc = "checking", !.idx = 1]]
       IN readiness' = out.t /\ selfTest' = out.run
    /\ UNCHANGED <<loadVars, boot, respVars, schemaCall, selectCall, errorCall, registryCall>>

\* A check whose exception is not caught: it leaves run_startup_self_test.
self_test_check_escapes(outcome) ==
    /\ selfTest.pc = "checking"
    /\ IF outcome = "raises"
       THEN /\ selfTest' = [selfTest EXCEPT !.pc = "raised", !.raised = "Exception"]
            /\ UNCHANGED readiness
       ELSE LET c == selfTest.plan[selfTest.idx]
                t1 == record_self_test_check(readiness, c.name, check_status(outcome),
                                             check_detail(outcome))
                run == [selfTest EXCEPT !.failed = @ \/ outcome # "valid"]
                out == IF selfTest.idx = Len(selfTest.plan) THEN self_test_end(t1, run)
                       ELSE [t |-> t1, run |-> [run EXCEPT !.idx = @ + 1]]
            IN readiness' = out.t /\ selfTest' = out.run
    /\ UNCHANGED <<loadVars, boot, respVars, schemaCall, selectCall, errorCall, registryCall>>

\* A check whose failure ends the self-test at once.
self_test_check_stops(outcome) ==
    /\ selfTest.pc = "checking"
    /\ LET c == selfTest.plan[selfTest.idx]
           t1 == record_self_test_check(readiness, c.name, check_status(outcome),
                                        check_detail(outcome))
           run == [selfTest EXCEPT !.failed = @ \/ outcome # "valid"]
           out == IF selfTest.idx = Len(selfTest.plan) \/ outcome # "valid"
                  THEN self_test_end(t1, run)
                  ELSE [t |-> t1, run |-> [run EXCEPT !.idx = @ + 1]]
       IN readiness' = out.t /\ selfTest' = out.run
    /\ UNCHANGED <<loadVars, boot, respVars, schemaCall, selectCall, errorCall, registryCall>>

\* One check, non-streaming or streaming (lines 117-130, 139-152, 161-174):
\* the outcome is recorded, a failure is remembered, the next check follows;
\* after the last one the self-test ends.
self_test_check(outcome) ==
    /\ selfTest.pc = "checking"
    /\ LET c == selfTest.plan[selfTest.idx]
           t1 == record_self_test_check(readiness, c.name, check_status(outcome),
                                        check_detail(outcome))
           run == [selfTest EXCEPT !.failed = @ \/ outcome # "valid"]
           out == IF selfTest.idx = Len(selfTest.plan) THEN self_test_end(t1, run)
                  ELSE [t |-> t1, run |-> [run EXCEPT !.idx = @ + 1]]
       IN readiness' = out.t /\ selfTest' = out.run
    /\ UNCHANGED <<loadVars, boot, respVars, schemaCall, selectCall, errorCall, registryCall>>

SelfTestNext ==
    \/ \E strict \in BOOLEAN, defaults \in DefaultsChoices : self_test_begin(strict, defaults)
    \/ \E outcome \in CheckOutcomes : self_test_check(outcome)

\* ReadinessTracker.as_payload: what GET /health and GET /ready answer with,
\* but for platform_id (fixed for the process) and the timestamps.
as_payload ==
    [status |-> readiness.status,
     defaults |-> boot.defaults,
     loaded_models |-> loaded_models,
     startup_checks |-> readiness.startup_checks,
     self_test |-> readiness.self_test,
     last_error |-> readiness.last_error]

\* ------------------------------------------------------------------------
\* Specifications
\* ------------------------------------------------------------------------
\* The registry and load manager with no boot sequence running.
LoadOnlyInit ==
    /\ LoadInit
    /\ readiness = NewTracker
    /\ boot = BootIdle
    /\ resp = RespIdle
    /\ NoCalls

\* Load jobs racing with requests that need an instance.
LoadNext == JobsNext \/ RequestsNext

SpecLoad == LoadOnlyInit /\ [][LoadNext]_vars

\* Load jobs observed through wait_for_job and get_job.
JobsPollNext == JobsNext \/ PollNext

SpecPoll == LoadOnlyInit /\ [][JobsPollNext]_vars

\* Load jobs alone.
SpecJobs == LoadOnlyInit /\ [][JobsNext]_vars

\* The event loop runs every ready task, and every hook returns or raises.
JobProgress(j) ==
    /\ j \in DOMAIN jobs
    /\ JobStep(j)

FairSpecJobs == SpecJobs /\ \A j \in JobIds : WF_vars(JobProgress(j))

\* The tracker driven by any caller, any method, any order.
call_mark_phase(n, st, d) ==
    /\ Len(readiness.startup_checks) < MaxChecks
    /\ readiness' = mark_phase(readiness, n, st, d)
    /\ UNCHANGED nonTrackerVars

call_mark_ready ==
    /\ readiness' = mark_ready(readiness)
    /\ UNCHANGED nonTrackerVars

call_mark_degraded(reason) ==
    /\ readiness' = mark_degraded(readiness, reason)
    /\ UNCHANGED nonTrackerVars

call_mark_error(reason) ==
    /\ readiness' = mark_error(readiness, reason)
    /\ UNCHANGED nonTrackerVars

call_begin_self_test ==
    /\ readiness' = begin_self_test(readiness)
    /\ UNCHANGED nonTrackerVars

call_record_self_test_check(n, st, d) ==
    /\ Len(readiness.self_test.checks) < MaxChecks
    /\ readiness' = record_self_test_check(readiness, n, st, d)
    /\ UNCHANGED nonTrackerVars

call_finish_self_test(st) ==
    /\ readiness' = finish_self_test(readiness, st)
    /\ UNCHANGED nonTrackerVars

TrackerNext ==
    \/ \E n \in PhaseNames, st \in PhaseStatuses, d \in Details : call_mark_phase(n, st, d)
    \/ call_mark_ready
    \/ \E d \in Details : call_mark_degraded(d)
    \/ call_mark_error("boom")
    \/ call_begin_self_test
    \/ \E st \in {"ok", "error"} : call_record_self_test_check("responses:a", st, "None")
    \/ \E st \in SelfTestFinals : call_finish_self_test(st)

SpecTracker == LoadOnlyInit /\ [][TrackerNext]_vars

\* The boot sequence with the preload job it starts.
BootNext ==
    \/ LifespanStep
    \/ JobSteps

SpecBoot == BootInit /\ [][BootNext]_vars

\* C2: once the status is error, no later call of mark_phase, mark_ready,
\* mark_degraded, mark_error, begin_self_test, record_self_test_check or
\* finish_self_test changes it to anything else.
C2_ErrorIsTerminal ==
    [][readiness.status = "error" => readiness'.status = "error"]_vars

\* mark_ready was called on a tracker in error and left it in error.
C2_Witness ==
    /\ readiness.status = "error"
    /\ Len(readiness.startup_checks) = 2
    /\ readiness.startup_checks[1].status = "error"
    /\ readiness.startup_checks[2].status = "degraded"
    /\ readiness.self_test.status = "ok"

\* C3: the status is monotonic in the precedence error > degraded > ready:
\* once it is degraded, no later call, the mark_ready() that ends the boot
\* sequence included, moves it back to ready.
C3_DegradedNeverBackToReady ==
    readiness.ever_degraded => readiness.status # "ready"

\* One caller's preload_model and ensure_instance calls, one after the other,
\* while requests of their own need an instance.
CallsNext == RegistryCallsNext \/ RequestsNext

SpecCalls == LoadOnlyInit /\ [][CallsNext]_vars

\* The schema helpers called on their own.
SpecSchemas == LoadOnlyInit /\ [][SchemaNext]_vars

\* A selection strategy of any platform over any catalog.
SelectInit ==
    /\ LoadInit
    /\ hooks = [a |-> "load_warmup", b |-> "load_only"]
    /\ readiness = NewTracker
    /\ boot = BootIdle
    /\ resp = RespIdle
    /\ schemaCall = SchemaIdle
    /\ selfTest = SelfTestIdle
    /\ errorCall = ErrorIdle
    /\ registryCall = RegistryIdle
    /\ \E platform_id \in Platforms : \E models \in SelectCatalogs(platform_id) :
            selectCall = [SelectIdle EXCEPT !.platform_id = platform_id, !.models = models]

SpecSelect == SelectInit /\ [][SelectNext]_vars

\* The trackers run_startup_self_test may be handed: fresh, or already
\* degraded or in error from an earlier phase.
TrackersBeforeSelfTest ==
    {NewTracker,
     mark_phase(NewTracker, "preload", "degraded", "None"),
     mark_error(NewTracker, "boom")}

SelfTestInit ==
    /\ LoadInit
    /\ readiness \in TrackersBeforeSelfTest
    /\ boot = BootIdle
    /\ resp = RespIdle
    /\ NoCalls

\* One run of the self-test against backends that may do anything.
SpecSelfTest == SelfTestInit /\ [][SelfTestNext]_vars

\* One request to POST /v1/responses against a backend that may return
\* anything or raise on every call.
LoadedCatalog == [m \in ModelIds |-> IF m = "a" THEN "load_warmup" ELSE "load_only"]

\* A responses model for linux-x64 or for darwin-arm64, or a speech model.
ServedModel(id, endpoint, platform_id) ==
    [id |-> id, alias |-> IF id = "a" THEN "a-alias" ELSE "b-alias", endpoint |-> endpoint,
     platforms |-> {platform_id}, priority |-> 100, provider |-> "hf", mode |-> "inprocess"]

\* The catalogs a linux-x64 gateway serves from: a runs here and b does not,
\* only b which does not, or no responses model at all.
ServedCatalogs ==
    {<<ServedModel("a", "responses", "linux-x64"), ServedModel("b", "responses", "darwin-arm64")>>,
     <<ServedModel("b", "responses", "darwin-arm64")>>,
     <<ServedModel("b", "audio.speech", "linux-x64")>>}

\* lifespan: selection, and registry.set_defaults with the computed defaults
\* (no operator override).
Serving(platform_id, models) ==
    [SelectIdle EXCEPT !.platform_id = platform_id, !.models = models,
                       !.defaults = compute_defaults(platform_id,
                                                     models_by_endpoint(models)).defaults]

ResponsesInit ==
    /\ LoadInit
    /\ hooks = LoadedCatalog
    /\ readiness = NewTracker
    /\ boot = BootIdle
    /\ resp = RespIdle
    /\ schemaCall = SchemaIdle
    /\ selfTest = SelfTestIdle
    /\ errorCall = ErrorIdle
    /\ registryCall = RegistryIdle
    /\ \E models \in ServedCatalogs : selectCall = Serving("linux-x64", models)

SpecResponses == ResponsesInit /\ [][ResponsesNext]_vars

Canonical_a1 == <<"{", "\"", "a", "\"", ":", "1", "}">>

NoJson(result) ==
    /\ result.kind = "str"
    /\ Find(result.text, "{") = 0
    /\ Find(result.text, "[") = 0
    /\ ~json_loads(result.text).ok

\* The reason an attempt fails with on a text with no JSON in it.
NoJsonReason(result) ==
    IF result.text = <<>> THEN "missing_output_text"
    ELSE IF Strip(result.text) = <<>> THEN "invalid_json: empty response"
    ELSE "invalid_json: parse_failed"

\* C10: while every call of the backend has returned a text with no JSON in
\* it, whatever the object schema, the enforcer goes on to the next attempt
\* until it has made max_attempts calls; after the last it raises
\* StructuredOutputFailure with the reason of that last attempt and the
\* endpoint answers 422 invalid_request_error carrying that reason.
C10_NoJsonExhaustsAttempts ==
    (/\ resp.config.schema \in ObjectSchemas
     /\ resp.raised \notin BackendExceptions
     /\ \A i \in 1..Len(resp.outputs) : NoJson(resp.outputs[i]))
    => IF Len(resp.outputs) < max_attempts
       THEN /\ resp.pc = "awaiting_run"
            /\ Len(resp.sent) = Len(resp.outputs) + 1
       ELSE /\ resp.pc = "done"
            /\ Len(resp.sent) = max_attempts
            /\ Len(resp.outputs) = max_attempts
            /\ resp.raised = "StructuredOutputFailure"
            /\ resp.last_error.reason = NoJsonReason(resp.outputs[max_attempts])
            /\ resp.http.status = 422
            /\ resp.http.err_type = "invalid_request_error"
            /\ resp.http.message = resp.last_error

C10_Witness ==
    /\ resp.pc = "done"
    /\ Len(resp.outputs) = max_attempts
    /\ \A i \in 1..Len(resp.outputs) : resp.outputs[i] = StrResult(HelloWorld)
    /\ resp.raised = "StructuredOutputFailure"
    /\ resp.http.status = 422

\* Every schema node of a schema: the node, the schemas of its properties,
\* its items schema and the branches of anyOf, oneOf and allOf, at any depth.
RECURSIVE SchemaNodes(_)
SchemaNodes(node) ==
    IF node.t # "obj" THEN <<>>
    ELSE LET props == Get(node, K_properties)
             Branches(key) ==
                IF Get(node, key).t = "arr"
                THEN Flatten([i \in 1..Len(Get(node, key).v) |-> SchemaNodes(Get(node, key).v[i])])
                ELSE <<>>
         IN <<node>>
            \o (IF props.t = "obj"
                THEN Flatten([i \in 1..Len(props.v) |-> SchemaNodes(props.v[i])])
                ELSE <<>>)
            \o SchemaNodes(Get(node, K_items))
            \o Branches(K_anyOf) \o Branches(K_oneOf) \o Branches(K_allOf)

DeclaresProperties(node) == node.t = "obj" /\ Get(node, K_properties).t = "obj"

IsObjectNode(node) == DeclaresProperties(node) \/ type_includes(node, T_object)

\* The node's required list names every key its properties declare.
RequiresDeclaredKeys(node) ==
    LET props == Get(node, K_properties)
        required == Get(node, K_required)
    IN /\ required.t = "arr"
       /\ \A i \in 1..Len(props.k) :
            \E h \in 1..Len(required.v) : required.v[h] = JStr(props.k[i])

\* The caller's required keys that are declared, in their order, then the
\* declared keys they leave out.
CoveringRequired(node) ==
    LET props == Get(node, K_properties)
        required == Get(node, K_required)
        kept == IF required.t = "arr"
                THEN SelectSeq(required.v, LAMBDA key : key.t = "str" /\ HasKey(props, key.s))
                ELSE <<>>
        declared == [i \in 1..Len(props.k) |-> JStr(props.k[i])]
    IN kept \o SelectSeq(declared, LAMBDA key : \A h \in 1..Len(kept) : kept[h] # key)

\* An object that lacks a key the schema's root declares.
MissesDeclaredKey(payload, schema) ==
    /\ payload.t = "obj"
    /\ DeclaresProperties(schema)
    /\ \E i \in 1..Len(Get(schema, K_properties).k) :
            ~HasKey(payload, Get(schema, K_properties).k[i])

\* An object with a key the schema's root, an object node, does not declare.
CarriesUndeclaredKey(payload, schema) ==
    /\ payload.t = "obj"
    /\ IsObjectNode(schema)
    /\ \E i \in 1..Len(payload.k) : ~HasKey(Get(schema, K_properties), payload.k[i])

\* C11: after the strict rewrite every node that declares properties has a
\* required list naming every declared key, at the root the caller's
\* required keys first and then the remaining declared keys, and a value
\* that lacks a declared key has at least one violation.
C11_StrictRequiresEveryDeclaredKey ==
    schemaCall.pc \in {"rewritten", "validated"}
    => /\ \A i \in 1..Len(SchemaNodes(schemaCall.effective)) :
            DeclaresProperties(SchemaNodes(schemaCall.effective)[i])
            => RequiresDeclaredKeys(SchemaNodes(schemaCall.effective)[i])
       /\ DeclaresProperties(schemaCall.schema)
            => Get(schemaCall.effective, K_required) = JArr(CoveringRequired(schemaCall.schema))
       /\ (schemaCall.pc = "validated"
             /\ MissesDeclaredKey(schemaCall.payload, schemaCall.effective))
            => schemaCall.violations # <<>>

\* C12: after the strict rewrite every object node, wherever it sits and
\* whatever additionalProperties the caller gave it, has additionalProperties
\* false, and a value with an undeclared key has at least one violation.
C12_StrictForbidsUndeclaredKeys ==
    schemaCall.pc \in {"rewritten", "validated"}
    => /\ \A i \in 1..Len(SchemaNodes(schemaCall.effective)) :
            IsObjectNode(SchemaNodes(schemaCall.effective)[i])
            => Get(SchemaNodes(schemaCall.effective)[i], K_additionalProperties) = JBool(FALSE)
       /\ (schemaCall.pc = "validated"
             /\ CarriesUndeclaredKey(schemaCall.payload, schemaCall.effective))
            => schemaCall.violations # <<>>

\* Every array of val at a position where the schema declares maxItems,
\* reached through properties and items, is within its maxItems.
RECURSIVE WithinMaxItems(_, _)
WithinMaxItems(val, schema) ==
    IF schema.t # "obj" THEN TRUE
    ELSE LET props == Get(schema, K_properties)
             items == Get(schema, K_items)
             max_items == Get(schema, K_maxItems)
         IN /\ (val.t = "arr" /\ type_includes(schema, T_array) /\ max_items.t = "num")
                => Len(val.v) <= max_items.n
            /\ (val.t = "arr" /\ type_includes(schema, T_array))
                => \A i \in 1..Len(val.v) : WithinMaxItems(val.v[i], items)
            /\ (val.t = "obj" /\ props.t = "obj")
                => \A i \in 1..Len(props.k) :
                      HasKey(val, props.k[i]) => WithinMaxItems(Get(val, props.k[i]), props.v[i])

\* after is before with trailing elements of some of its arrays dropped.
RECURSIVE KeepsLeadingElements(_, _)
KeepsLeadingElements(before, after) ==
    IF before.t = "arr"
    THEN /\ after.t = "arr"
         /\ Len(after.v) <= Len(before.v)
         /\ \A i \in 1..Len(after.v) : KeepsLeadingElements(before.v[i], after.v[i])
    ELSE IF before.t = "obj"
    THEN /\ after.t = "obj"
         /\ after.k = before.k
         /\ \A i \in 1..Len(after.v) : KeepsLeadingElements(before.v[i], after.v[i])
    ELSE after = before

\* C13: after the trimmer of a schema ran on a value, every array at a
\* position with a declared maxItems n, arrays nested directly in arrays
\* included, has at most n elements, what is kept are the leading elements in
\* their order, and the fixer returned true exactly when it removed something.
C13_TrimmerEnforcesMaxItemsEverywhere ==
    schemaCall.pc = "trimmed"
    => /\ WithinMaxItems(schemaCall.trimmed, schemaCall.schema)
       /\ KeepsLeadingElements(schemaCall.payload, schemaCall.trimmed)
       /\ schemaCall.changed <=> schemaCall.trimmed # schemaCall.payload

\* The model serves the endpoint asked for and lists the current platform.
Compatible(model, endpoint) ==
    /\ model.endpoint = endpoint
    /\ is_platform_supported(model, selectCall.platform_id)

\* C14: when the catalog is two models that serve the endpoint and list the
\* current platform, one of priority 100 and one of priority 50, select
\* without a requested id returns the one of priority 100, whatever the
\* platform, the providers, the execution modes and the catalog order.
C14_HigherPriorityWins ==
    (/\ selectCall.pc = "selected"
     /\ ~Requested(selectCall.requested)
     /\ Len(selectCall.models) = 2
     /\ \A i \in 1..2 : Compatible(selectCall.models[i], selectCall.endpoint)
     /\ {selectCall.models[1].priority, selectCall.models[2].priority} = {50, 100})
    => /\ selectCall.outcome = "returned"
       /\ selectCall.model.priority = 100

\* The narrowest margin: off darwin-arm64, the priority-100 model is an mlx
\* subprocess (80) listed after a trusted in-process model of priority 50 (57).
C14_Witness ==
    /\ selectCall.pc = "selected"
    /\ selectCall.requested = "None"
    /\ selectCall.platform_id = "windows-x64"
    /\ Len(selectCall.models) = 2
    /\ selectCall.models[1].priority = 50
    /\ selectCall.models[1].provider = "hf"
    /\ selectCall.models[1].mode = "inprocess"
    /\ selectCall.models[2].provider = "mlx"
    /\ selectCall.models[2].mode = "subprocess"
    /\ selectCall.model = selectCall.models[2]

\* C15: select with a requested id or alias returns a model only when that
\* model serves the endpoint, lists the platform and has the id or alias;
\* when the catalog has no such model, the requested id being unknown
\* included, it raises ModelNotFoundError and returns no scored default.
C15_RequestedNeverFallsBack ==
    (selectCall.pc = "selected" /\ Requested(selectCall.requested))
    => IF \E i \in 1..Len(selectCall.models) :
              /\ Compatible(selectCall.models[i], selectCall.endpoint)
              /\ Matches(selectCall.models[i], selectCall.requested)
       THEN /\ selectCall.outcome = "returned"
            /\ \E i \in 1..Len(selectCall.models) : selectCall.model = selectCall.models[i]
            /\ Compatible(selectCall.model, selectCall.endpoint)
            /\ Matches(selectCall.model, selectCall.requested)
       ELSE /\ selectCall.outcome = "ModelNotFoundError"
            /\ selectCall.model = NoModel

\* b was requested for an endpoint it serves on a platform it does not list,
\* while a could have been the scored default.
C15_Witness ==
    /\ selectCall.pc = "selected"
    /\ selectCall.requested = "b"
    /\ Len(selectCall.models) = 2
    /\ selectCall.models[2].endpoint = selectCall.endpoint
    /\ ~Compatible(selectCall.models[2], selectCall.endpoint)
    /\ Compatible(selectCall.models[1], selectCall.endpoint)
    /\ selectCall.outcome = "ModelNotFoundError"

\* The endpoints of the catalog with at least one model that lists the platform.
CompatibleEndpoints ==
    {selectCall.models[i].endpoint : i \in
        {h \in 1..Len(selectCall.models) :
            is_platform_supported(selectCall.models[h], selectCall.platform_id)}}

\* C16: compute_defaults returns without raising; its keys are the endpoints
\* with at least one platform-compatible model, the others are left out, and
\* the id under a key is what select returns for that endpoint: a compatible
\* model of the endpoint that no other one outscores.
C16_DefaultsForCompatibleEndpointsOnly ==
    selectCall.pc = "defaults"
    => /\ selectCall.outcome = "returned"
       /\ DOMAIN selectCall.defaults = CompatibleEndpoints
       /\ \A e \in DOMAIN selectCall.defaults :
            /\ selectCall.defaults[e] =
                 select(selectCall.platform_id, models_by_endpoint(selectCall.models)[e],
                        e, "None").model.id
            /\ \E i \in 1..Len(selectCall.models) :
                 /\ selectCall.models[i].id = selectCall.defaults[e]
                 /\ Compatible(selectCall.models[i], e)
                 /\ \A h \in 1..Len(selectCall.models) :
                      Compatible(selectCall.models[h], e)
                      => score(selectCall.platform_id, selectCall.models[h])
                           <= score(selectCall.platform_id, selectCall.models[i])

\* Two endpoints, one whose only model does not list the platform: it is
\* left out and the other endpoint gets its default.
C16_Witness ==
    /\ selectCall.pc = "defaults"
    /\ selectCall.outcome = "returned"
    /\ Len(selectCall.models) = 2
    /\ selectCall.models[1].endpoint # selectCall.models[2].endpoint
    /\ ~is_platform_supported(selectCall.models[1], selectCall.platform_id)
    /\ DOMAIN selectCall.defaults = {selectCall.models[2].endpoint}
    /\ selectCall.defaults[selectCall.models[2].endpoint] = "b"

\* run_startup_self_test has returned or raised.
SelfTestOver == selfTest.pc \in {"returned", "raised"}

\* Some recorded check has status error.
CheckFailed ==
    \E i \in 1..Len(readiness.self_test.checks) :
        readiness.self_test.checks[i].status = "error"

\* C17: in lenient mode run_startup_self_test never raises, whatever the
\* backends return or raise, and once it has returned the self-test status
\* is ok or degraded, never error and never still running.
C17_LenientSelfTestNeverRaises ==
    (selfTest.pc # "idle" /\ ~selfTest.strict)
    => /\ selfTest.pc # "raised"
       /\ selfTest.raised = ""
       /\ selfTest.pc = "returned" => readiness.self_test.status \in {"ok", "degraded"}
       /\ selfTest.pc = "checking" => readiness.self_test.status = "running"

\* A lenient run in which a backend's run() raised has returned, degraded.
C17_Witness ==
    /\ selfTest.pc = "returned"
    /\ ~selfTest.strict
    /\ \E i \in 1..Len(readiness.self_test.checks) :
            readiness.self_test.checks[i].detail = "boom"
    /\ readiness.self_test.status = "degraded"

\* What a failed self-test leaves behind: in strict mode status error, the
\* RuntimeError and readiness error; in lenient mode status degraded, no
\* exception, readiness degraded with last_error self_test_failed unless it
\* was error before.
FailedSelfTestOutcome ==
    IF selfTest.strict
    THEN /\ readiness.self_test.status = "error"
         /\ selfTest.pc = "raised"
         /\ readiness.status = "error"
         /\ readiness.last_error = "self_test_failed"
    ELSE /\ readiness.self_test.status = "degraded"
         /\ selfTest.pc = "returned"
         /\ IF selfTest.status_before = "error"
            THEN readiness.status = "error"
            ELSE readiness.status = "degraded" /\ readiness.last_error = "self_test_failed"

RecordedNames ==
    [i \in 1..Len(readiness.self_test.checks) |-> readiness.self_test.checks[i].name]

Recorded(name) == Cardinality({i \in 1..Len(RecordedNames) : RecordedNames[i] = name})

\* C19: a failing check stops nothing.  While the self-test runs, every
\* check gone through so far is recorded; when it is over, each endpoint
\* with a resolved default has exactly one non-streaming result, each
\* default that supports streaming has its streaming result, in the order
\* of the plan, whatever the outcomes were.
C19_FailingCheckStopsNothing ==
    /\ selfTest.pc = "checking" => Len(RecordedNames) = selfTest.idx - 1
    /\ (SelfTestOver /\ RegisteredIds # {})
        => /\ RecordedNames =
                [i \in 1..Len(SelfTestPlan(selfTest.defaults)) |->
                    SelfTestPlan(selfTest.defaults)[i].name]
           /\ \A i \in 1..Len(Endpoints) :
                Recorded(Endpoints[i]) =
                    IF Present(selfTest.defaults[Endpoints[i]]) THEN 1 ELSE 0
           /\ Recorded("responses_stream") =
                IF selfTest.defaults["responses"] \in StreamModels THEN 1 ELSE 0
           /\ Recorded("audio_transcriptions_stream") =
                IF selfTest.defaults["audio.transcriptions"] \in StreamModels THEN 1 ELSE 0

\* The first of four checks failed and the three after it were still run,
\* the last one successfully.
C19_Witness ==
    /\ SelfTestOver
    /\ Len(readiness.self_test.checks) = 4
    /\ readiness.self_test.checks[1].status = "error"
    /\ readiness.self_test.checks[2].status = "error"
    /\ readiness.self_test.checks[4].status = "ok"

RECURSIVE Concat(_)
Concat(texts) == IF texts = <<>> THEN <<>> ELSE Head(texts) \o Concat(Tail(texts))

\* The deltas of the events between the first and the last two.
Deltas(events) == [i \in 1..(Len(events) - 3) |-> events[i + 1].data]

\* C20: the answer to a streaming structured request is response.created,
\* then response.output_text.delta events whose deltas, concatenated in
\* order, are the canonical text the enforcer validated, then
\* response.output_text.done with that text, then response.completed; no
\* event exists while the enforcer is still running or after it failed.
C20_StreamReplaysValidatedText ==
    /\ (resp.pc = "done" /\ resp.stream /\ resp.result.attempts > 0)
        => /\ Len(resp.events) >= 3
           /\ resp.events[1].event = "response.created"
           /\ \A i \in 2..(Len(resp.events) - 2) :
                /\ resp.events[i].event = "response.output_text.delta"
                /\ Len(resp.events[i].data) \in 1..ChunkSize
           /\ Concat(Deltas(resp.events)) = resp.result.canonical_text
           /\ resp.events[Len(resp.events) - 1] =
                Event("response.output_text.done", resp.result.canonical_text)
           /\ resp.events[Len(resp.events)].event = "response.completed"
           /\ json_loads(resp.result.canonical_text).ok
           /\ validate_against_schema(resp.result.parsed, resp.config.effective_schema) = <<>>
           /\ resp.http.status = 200
           /\ resp.http.media = "text/event-stream"
    /\ (resp.config.schema # JNull /\ (resp.pc # "done" \/ resp.result.attempts = 0))
        => resp.events = <<>>
    /\ ~resp.stream => resp.events = <<>>

\* A canonical text longer than one chunk, accepted on the second attempt,
\* went out as two deltas.
C20_Witness ==
    /\ resp.pc = "done"
    /\ resp.stream
    /\ resp.result.attempts = 2
    /\ Len(resp.result.canonical_text) > ChunkSize
    /\ Len(resp.events) = 5
    /\ resp.events[2].event = "response.output_text.delta"
    /\ resp.events[3].event = "response.output_text.delta"

\* The event stream of a request has been written out.
StreamSent == resp.pc = "done" /\ resp.http.media = "text/event-stream"

\* C21: every SSE stream sent for a streaming request is one event:/data:
\* frame per backend event, in the backend's order, followed by one final
\* "data: [DONE]" frame after the last event.
C21_StreamEndsWithDone ==
    StreamSent =>
        /\ Len(resp.frames) = Len(resp.events) + 1
        /\ \A i \in 1..Len(resp.events) :
                resp.frames[i] = Frame(resp.events[i].event, resp.events[i].data)
        /\ resp.frames[Len(resp.frames)] = DoneFrame

\* The catalog holds a responses model that lists the gateway's platform and
\* goes by the name the request asks for.
RequestedModelServed ==
    \E i \in 1..Len(selectCall.models) :
        /\ selectCall.models[i].endpoint = "responses"
        /\ selectCall.platform_id \in selectCall.models[i].platforms
        /\ resp.requested \in {selectCall.models[i].id, selectCall.models[i].alias}

\* The request names a model, and a model was selected for it.
ModelSelected == resp.model_id # "None"

\* The request's json_schema format carries a schema that is no object or
\* whose serialization is longer than the limit.
BadSchema ==
    /\ resp.format.kind = "json_schema"
    /\ \/ resp.format.schema.t # "obj"
       \/ schema_bytes(resp.format.schema) > MAX_SCHEMA_BYTES

ErrorAnswer(http, status, err_type) ==
    /\ http.status = status
    /\ http.err_type = err_type
    /\ http.media = "application/json"

\* C22: POST /v1/responses answers an unknown or platform-incompatible model
\* with 404 not_found, a json_schema format whose schema is no object or is
\* over the size limit with 400 invalid_request_error, and retry exhaustion
\* with 422 invalid_request_error; format_error without a status gives 400
\* for invalid_request_error, 404 for not_found and 500 for any other type.
C22_ErrorStatuses ==
    /\ (resp.pc = "done" /\ Requested(resp.requested) /\ ~RequestedModelServed)
        => ErrorAnswer(resp.http, 404, "not_found")
    /\ (resp.pc = "done" /\ ModelSelected /\ BadSchema)
        => ErrorAnswer(resp.http, 400, "invalid_request_error")
    /\ (resp.pc = "done" /\ resp.raised = "StructuredOutputFailure")
        => /\ ErrorAnswer(resp.http, 422, "invalid_request_error")
           /\ resp.attempt = max_attempts
    /\ (errorCall.pc = "formatted" /\ ~errorCall.status_code.set)
        => ErrorAnswer(errorCall.http,
                       IF errorCall.err_type = "invalid_request_error" THEN 400
                       ELSE IF errorCall.err_type = "not_found" THEN 404
                       ELSE 500,
                       errorCall.err_type)
    /\ (errorCall.pc = "formatted" /\ errorCall.status_code.set)
        => ErrorAnswer(errorCall.http, errorCall.status_code.v, errorCall.err_type)

\* format_error was called without a status for a type that is neither
\* invalid_request_error nor not_found, and answered 500.
C22_Witness ==
    /\ errorCall.pc = "formatted"
    /\ ~errorCall.status_code.set
    /\ errorCall.err_type = "rate_limit_error"
    /\ errorCall.http.status = 500

\* The request named b, which only runs on another platform, and was
\* answered 404.
C22_WitnessIncompatible ==
    /\ resp.pc = "done"
    /\ resp.requested = "b"
    /\ \E i \in 1..Len(selectCall.models) : selectCall.models[i].id = "b"
    /\ resp.http.status = 404

\* A schema one byte over the limit was answered 400, for a selected model.
C22_WitnessOverLimit ==
    /\ resp.pc = "done"
    /\ resp.model_id = "a"
    /\ resp.format.schema = SchemaOverLimit
    /\ resp.http.status = 400

\* C23: if a model's startup hook raises during boot, startup aborts: no
\* preload job and no self-test is started afterwards, the readiness status
\* is error and never becomes ready in that boot cycle.
C23_StartupHookFailureAborts ==
    boot.raised = "startup_hook" =>
        /\ boot.pc = "failed"
        /\ readiness.status = "error"
        /\ readiness.last_error = "startup_failure"
        /\ jobs = <<>>
        /\ boot.job = 0
        /\ readiness.self_test = NewTracker.self_test
        /\ \A i \in 1..Len(readiness.startup_checks) :
                readiness.startup_checks[i].name \notin {"startup_hooks", "preload"}

\* The first model's startup hook returned, the second one's raised, and
\* lifespan's finally has run.
C23_Witness ==
    /\ boot.raised = "startup_hook"
    /\ boot.startup_called = <<"a", "b">>
    /\ boot.stop.pc = "returned"
    /\ readiness.status = "error"

\* shutdown is over: it returned or it raised.
ShutdownOver == boot.stop.pc \in {"returned", "raised"}

\* C24: shutdown is best-effort: it invokes the shutdown hook of every model
\* that has a cached instance and a shutdown hook, also after an earlier
\* shutdown hook raised, and shutdown itself never raises.
C24_ShutdownIsBestEffort ==
    ShutdownOver =>
        /\ boot.stop.pc = "returned"
        /\ \A m \in RegisteredIds :
                (m \in boot.shutdown_hooks /\ IsCached(m))
                    => \E i \in 1..Len(boot.stop.called) : boot.stop.called[i] = m


\* A finished preload_model call of the caller's log.
IsPreload(e) == e.op = "preload_model"

\* C25 as stated: a preload_model call on a cached id returns success with
\* no load and no warmup and the cache as it was, a call on a registered id
\* without a load hook returns failure and caches nothing, and two
\* preload_model calls for one id, one after the other, invoke load at most
\* once between them.
C25_PreloadIdempotent ==
    /\ \A i \in 1..Len(registryCall.log) :
            LET e == registryCall.log[i]
            IN IsPreload(e) =>
                /\ e.before[e.model] # 0 =>
                        e.result = "True" /\ e.loads = 0 /\ e.warmups = 0 /\ e.after = e.before
                /\ (hooks[e.model] = "no_load" /\ e.before[e.model] = 0) =>
                        e.result = "False" /\ e.loads = 0 /\ e.after = e.before
    /\ \A i, k \in 1..Len(registryCall.log) :
            (i < k /\ IsPreload(registryCall.log[i]) /\ IsPreload(registryCall.log[k])
               /\ registryCall.log[i].model = registryCall.log[k].model)
            => registryCall.log[i].loads + registryCall.log[k].loads <= 1

\* C25 amended: the same, where the second of two sequential preload_model
\* calls invokes load only if the first one's load hook raised (the first
\* call returned failure and cached nothing).
C25_PreloadIdempotentUnlessLoadRaised ==
    /\ \A i \in 1..Len(registryCall.log) :
            LET e == registryCall.log[i]
            IN IsPreload(e) =>
                /\ e.before[e.model] # 0 =>
                        e.result = "True" /\ e.loads = 0 /\ e.warmups = 0 /\ e.after = e.before
                /\ (hooks[e.model] = "no_load" /\ e.before[e.model] = 0) =>
                        e.result = "False" /\ e.loads = 0 /\ e.after = e.before
    /\ \A i, k \in 1..Len(registryCall.log) :
            (i < k /\ IsPreload(registryCall.log[i]) /\ IsPreload(registryCall.log[k])
               /\ registryCall.log[i].model = registryCall.log[k].model
               /\ registryCall.log[i].loads + registryCall.log[k].loads > 1)
            => /\ registryCall.log[i].result = "False"
               /\ registryCall.log[i].after[registryCall.log[i].model] = 0

\* C25 witness: a preload_model call loaded and cached a model, and the next
\* preload_model call for that id returned success without loading.
C25_Witness ==
    /\ Len(registryCall.log) = 2
    /\ IsPreload(registryCall.log[1]) /\ IsPreload(registryCall.log[2])
    /\ registryCall.log[1].model = registryCall.log[2].model
    /\ registryCall.log[1].loads = 1 /\ registryCall.log[1].result = "True"
    /\ registryCall.log[2].loads = 0 /\ registryCall.log[2].result = "True"

\* C25 witness: a preload_model call on a registered id without a load hook
\* returned failure.
C25_WitnessNoLoadHook ==
    \E i \in 1..Len(registryCall.log) :
        /\ IsPreload(registryCall.log[i])
        /\ hooks[registryCall.log[i].model] = "no_load"
        /\ registryCall.log[i].result = "False"


\* A finished ensure_instance call of the caller's log.
IsEnsure(e) == e.op = "ensure_instance"

\* The step in which a load hook awaited by ensure_instance raised: the
\* caller's, or request r's.
CallerLoadRaised ==
    /\ registryCall.pc = "in_load" /\ registryCall.op = "ensure_instance"
    /\ registryCall'.pc = "idle"
    /\ registryCall'.log[Len(registryCall'.log)].result = "raised"

RequestLoadRaised(r) == reqs[r].pc = "in_load" /\ reqs'[r].result = "raised"

\* C26: ensure_instance on a registered id without a load hook returns None
\* and leaves the cache as it was; when the load hook raises, the exception
\* ends that call alone (every other request and caller is where it was),
\* the whole cache is as it was, so nothing is cached for the id and the
\* other models keep their entries, and a later call that finds the id
\* uncached invokes load again.
C26_EnsureInstanceFailures ==
    /\ [](\A i \in 1..Len(registryCall.log) :
            LET e == registryCall.log[i]
            IN IsEnsure(e) =>
                /\ (hooks[e.model] = "no_load" /\ e.before[e.model] = 0) =>
                        e.result = "None" /\ e.loads = 0 /\ e.after = e.before
                /\ e.result = "raised" => e.loads = 1 /\ e.handle = 0
                /\ (HasLoad(e.model) /\ e.before[e.model] = 0) => e.loads = 1)
    /\ [](\A r \in ReqIds :
            (reqs[r].pc = "done" /\ hooks[reqs[r].model] = "no_load"
                /\ model_instances[reqs[r].model] = 0) => reqs[r].result = "None")
    /\ [][CallerLoadRaised => (model_instances' = model_instances /\ reqs' = reqs)]_vars
    /\ [][\A r \in ReqIds :
            RequestLoadRaised(r) =>
                /\ model_instances' = model_instances
                /\ registryCall' = registryCall
                /\ \A q \in ReqIds \ {r} : reqs'[q] = reqs[q]]_vars

\* C26 witness: the caller's ensure_instance call ended with the load hook's
\* exception and cached nothing, and its next ensure_instance call for the
\* same id invoked load again.
C26_Witness ==
    /\ Len(registryCall.log) = 2
    /\ IsEnsure(registryCall.log[1]) /\ IsEnsure(registryCall.log[2])
    /\ registryCall.log[1].model = registryCall.log[2].model
    /\ registryCall.log[1].result = "raised"
    /\ registryCall.log[1].after[registryCall.log[1].model] = 0
    /\ registryCall.log[2].loads = 1

\* C26 witness: an ensure_instance call on a registered id without a load
\* hook returned None.
C26_WitnessNoLoadHook ==
    \E i \in 1..Len(registryCall.log) :
        /\ IsEnsure(registryCall.log[i])
        /\ hooks[registryCall.log[i].model] = "no_load"
        /\ registryCall.log[i].result = "None"


\* C27: the handle cached for a model id is created at most once: once
\* model_instances[id] is set, no step replaces or removes it, and a request
\* whose ensure_instance returned an instance holds the handle the cache
\* holds for that id.
C27_InstanceCreatedOnce ==
    /\ [][\A m \in ModelIds :
            model_instances[m] # 0 => model_instances'[m] = model_instances[m]]_vars
    /\ [](\A r \in ReqIds :
            (reqs[r].pc = "done" /\ reqs[r].result = "instance")
                => reqs[r].handle = model_instances[reqs[r].model])


\* The boot sequence's preload is over and the load hook of model m raised
\* in it.
PreloadLoadFailed(m) ==
    /\ boot.pc \in {"selftest", "serving", "failed"}
    /\ boot.job \in DOMAIN jobs
    /\ \E k \in DOMAIN loadTasks[boot.job] :
            loadTasks[boot.job][k].model = m /\ loadTasks[boot.job][k].raised = "load"

\* The readiness payload reports a failure of the preload: a preload check
\* whose status is not ok or whose detail is not that of a completed job, or
\* a last_error.
PayloadReportsPreloadFailure(payload) ==
    \/ payload.last_error # "None"
    \/ \E c \in 1..Len(payload.startup_checks) :
            /\ payload.startup_checks[c].name = "preload"
            /\ \/ payload.startup_checks[c].status # "ok"
               \/ payload.startup_checks[c].detail # "job_id=1 status=completed"

\* C28: after a preload in which a model's load failed, the readiness
\* payload tells which model failed and why; the least of it, that the
\* payload reports a preload failure at all, is what is stated here.
C28_PayloadNamesFailedLoad ==
    \A m \in ModelIds : PreloadLoadFailed(m) => PayloadReportsPreloadFailure(as_payload)


\* C29: a model spec whose execution.mode is subprocess or http_proxy and
\* whose launch descriptor is null fails validation, with the launch
\* validator's error, and a spec whose mode is inprocess and whose launch
\* descriptor is null is validated.
C29_LaunchRequiredOutOfProcess ==
    (selectCall.pc = "validated" /\ selectCall.launch = "None")
    => /\ selectCall.mode \in {"subprocess", "http_proxy"} =>
            selectCall.outcome =
                "ValidationError: launch is required for subprocess/http_proxy execution"
       /\ selectCall.mode = "inprocess" => selectCall.outcome = "validated"

\* C29 witness: an http_proxy spec without a launch descriptor was refused.
C29_Witness ==
    /\ selectCall.pc = "validated"
    /\ selectCall.mode = "http_proxy" /\ selectCall.launch = "None"
    /\ selectCall.outcome # "validated"

\* C29 witness: an inprocess spec without a launch descriptor was validated.
C29_WitnessInprocess ==
    /\ selectCall.pc = "validated"
    /\ selectCall.mode = "inprocess" /\ selectCall.launch = "None"
    /\ selectCall.outcome = "validated"


\* The step in which task k of job j invokes the warmup hook.
WarmupInvoked(j, k) ==
    /\ j \in DOMAIN jobs /\ j \in DOMAIN loadTasks'
    /\ k \in DOMAIN loadTasks[j] /\ k \in DOMAIN loadTasks'[j]
    /\ loadTasks[j][k].pc # "in_warmup"
    /\ loadTasks'[j][k].pc = "in_warmup"

\* C30: within one model's preload the warmup hook is invoked only in the
\* step in which the load hook returned, with the load's result, which is
\* new and is what the cache holds for the model at that moment; it is not
\* invoked by a task whose load hook raised or that found the model cached.
C30_LoadBeforeWarmup ==
    /\ [][\A j \in 1..MaxJobs, k \in 1..Cardinality(ModelIds) :
            WarmupInvoked(j, k) =>
                /\ loadTasks[j][k].pc = "in_load"
                /\ loadTasks'[j][k].raised = "none"
                /\ loadTasks'[j][k].instance # 0
                /\ loadTasks'[j][k].instance = nextHandle
                /\ model_instances'[loadTasks[j][k].model] = loadTasks'[j][k].instance
                /\ model_instances[loadTasks[j][k].model] # loadTasks'[j][k].instance]_vars
    /\ [](\A j \in DOMAIN loadTasks : \A k \in DOMAIN loadTasks[j] :
            /\ loadTasks[j][k].raised = "load" =>
                    loadTasks[j][k].pc = "done" /\ loadTasks[j][k].instance = 0
            /\ loadTasks[j][k].pc = "in_warmup" => loadTasks[j][k].instance # 0)

\* C30 witness: a task is in the warmup hook with the instance its load
\* returned, which is the one cached.
C30_Witness ==
    \E j \in DOMAIN loadTasks : \E k \in DOMAIN loadTasks[j] :
        /\ loadTasks[j][k].pc = "in_warmup"
        /\ loadTasks[j][k].instance # 0
        /\ model_instances[loadTasks[j][k].model] = loadTasks[j][k].instance


\* The per-model statuses a _load_single task ends in, and the aggregate
\* statuses a job ends in.
FinalModelStatuses == {"loaded", "skipped", "error"}

FinalJobStatuses == {"completed", "failed"}

\* One step of a per-model status.  _load_single sets loading before it
\* calls preload_model; when preload_model returns without awaiting a hook,
\* loading and the final status are set in the same stretch of code, and
\* the step goes from pending to the final status.
ModelStatusStep(old, new, ranWhole) ==
    \/ new = old
    \/ old = "pending" /\ new = "loading"
    \/ old = "loading" /\ new \in FinalModelStatuses
    \/ old = "pending" /\ new \in FinalModelStatuses /\ ranWhole

JobStatusStep(old, new) ==
    \/ new = old
    \/ old = "pending" /\ new = "running"
    \/ old = "running" /\ new \in FinalJobStatuses

\* Some _load_single task of job j for model m ran from its start to its end
\* in this step.
RanWhole(j, m) ==
    \E k \in DOMAIN loadTasks[j] :
        /\ loadTasks[j][k].model = m
        /\ loadTasks[j][k].pc = "scheduled"
        /\ loadTasks'[j][k].pc = "done"

\* C31: load-job statuses only move forward: a per-model status goes from
\* pending to loading to one of loaded, skipped, error and then stays; the
\* aggregate status goes from pending to running to one of completed,
\* failed and then stays; statuses take no other value.
C31_StatusesMoveForward ==
    /\ [][\A j \in DOMAIN jobs :
            /\ JobStatusStep(jobs[j].status, jobs'[j].status)
            /\ \A m \in DOMAIN jobs[j].statuses :
                    ModelStatusStep(jobs[j].statuses[m], jobs'[j].statuses[m], RanWhole(j, m))]_vars
    /\ [](\A j \in DOMAIN jobs :
            /\ jobs[j].status \in {"pending", "running"} \cup FinalJobStatuses
            /\ \A m \in DOMAIN jobs[j].statuses :
                    jobs[j].statuses[m] \in {"pending", "loading"} \cup FinalModelStatuses
            /\ jobs[j].status \in FinalJobStatuses =>
                    \A m \in DOMAIN jobs[j].statuses : jobs[j].statuses[m] \in FinalModelStatuses)

\* C31 witness: a job ended failed with one model in error after its warmup
\* raised and another one loaded.
C31_Witness ==
    \E j \in DOMAIN jobs :
        /\ jobs[j].status = "failed"
        /\ \E m \in DOMAIN jobs[j].statuses : jobs[j].statuses[m] = "error"
        /\ \E m \in DOMAIN jobs[j].statuses : jobs[j].statuses[m] = "loaded"


\* The enforcer is or was running for the request.
EnforcerRan == resp.attempt >= 1

\* The output canonicalizes and validates under the request's schema.
Accepted(result) == attempt_outcome(result, resp.config, resp.model_id).ok

\* The outputs the backend has returned so far, the last left out, were all
\* refused.
EarlierRefused ==
    \A i \in 1..Len(resp.outputs) : i < Len(resp.outputs) => ~Accepted(resp.outputs[i])

CorrectiveFor(i) ==
    LET out == attempt_outcome(resp.outputs[i], resp.config, resp.model_id)
        text == extract_output_text(resp.outputs[i])
    IN build_retry_feedback(i, [reason |-> out.error, violations |-> out.violations],
                            IF text.ok THEN text.text ELSE <<>>)

\* C33: the messages sent on attempt k are the caller's normalized
\* messages, the schema guard message, then k-1 corrective system messages,
\* the i-th one written for attempt i with its number and its failure
\* reason; the messages of attempt k-1 are a prefix of those of attempt k,
\* so that it is enough to compare the latest attempt's corrective messages
\* with what each earlier attempt failed on.
C33_MessagesGrowByOneCorrective ==
    EnforcerRan =>
        /\ \A k \in 1..Len(resp.sent) :
            LET messages == resp.sent[k].messages
            IN /\ Len(messages) = Len(base_messages) + k - 1
               /\ SubSeq(messages, 1, Len(base_messages)) = base_messages
               /\ messages[Len(base_messages)].kind = "guard"
               /\ \A i \in 1..(k - 1) :
                    /\ messages[Len(base_messages) + i].role = "system"
                    /\ messages[Len(base_messages) + i].kind = "retry"
                    /\ messages[Len(base_messages) + i].attempt = i
                    /\ messages[Len(base_messages) + i].reason.reason # ""
               /\ k > 1 => SubSeq(messages, 1, Len(messages) - 1) = resp.sent[k - 1].messages
        /\ \A i \in 1..(Len(resp.sent) - 1) :
                resp.sent[Len(resp.sent)].messages[Len(base_messages) + i] = CorrectiveFor(i)

\* C33 witness: the third attempt was sent with two corrective messages
\* that give different reasons.
C33_Witness ==
    /\ Len(resp.sent) >= 3
    /\ Len(resp.sent[3].messages) = Len(base_messages) + 2
    /\ resp.sent[3].messages[Len(base_messages) + 1].reason
            # resp.sent[3].messages[Len(base_messages) + 2].reason


\* x <= bound on floats.
AtMost(x, bound) == x # NAN /\ x <= bound

\* C34: every enforcer attempt numbered 2 or higher is sent with a
\* temperature of at most 0.2 and a top_p of at most 0.5, the caller's value
\* when that is lower; attempt 1 is sent with the caller's temperature and
\* top_p; every attempt is sent with stream = false.
C34_SamplingBackOff ==
    EnforcerRan =>
        \A k \in 1..Len(resp.sent) :
            /\ resp.sent[k].stream = FALSE
            /\ k = 1 => /\ resp.sent[k].temperature = resp.temperature
                        /\ resp.sent[k].top_p = resp.top_p
            /\ k >= 2 =>
                /\ resp.sent[k].temperature.set /\ resp.sent[k].top_p.set
                /\ AtMost(resp.sent[k].temperature.v, 20)
                /\ AtMost(resp.sent[k].top_p.v, 50)
                /\ (resp.temperature.set /\ AtMost(resp.temperature.v, 20))
                        => resp.sent[k].temperature = resp.temperature
                /\ (resp.top_p.set /\ AtMost(resp.top_p.v, 50))
                        => resp.sent[k].top_p = resp.top_p


\* The backend's run() raised during an enforcer attempt.
RunRaised == EnforcerRan /\ resp.raised \in BackendExceptions

\* C35: when the backend's run() raises during an enforcer attempt, that
\* attempt is the last one: the request is over at once with the exception
\* (answered 500 when it is a RuntimeError, left to the server otherwise),
\* no corrective message is written for it, no result is returned, and
\* nothing is sent to the backend afterwards.
C35_RunExceptionNotRetried ==
    /\ [](RunRaised =>
            /\ resp.pc = "done"
            /\ Len(resp.sent) = Len(resp.outputs) + 1
            /\ Len(resp.retry_messages) = Len(resp.outputs)
            /\ resp.result = NoResult
            /\ resp.http = IF resp.raised = "RuntimeError"
                           THEN format_error(NoError, "server_error", Val(500))
                           ELSE NoResponse)
    /\ [][RunRaised => resp' = resp]_vars

\* C35 witness: run() raised on the second attempt, after one refused
\* output, and the request ended there with a 500.
C35_Witness ==
    /\ RunRaised
    /\ resp.raised = "RuntimeError"
    /\ Len(resp.outputs) = 1
    /\ Len(resp.sent) = 2
    /\ resp.http.status = 500


\* The enforcer returned a result.
ResultReturned == EnforcerRan /\ resp.pc = "done" /\ resp.result.attempts >= 1

\* C36: whenever the enforcer returns a result, its canonical text is the
\* compact JSON serialization of its parsed value, also when a fixer (the
\* array trimmer, the diagnostics defaults) changed the value, and the
\* parsed value has no violation against the effective schema.
C36_CanonicalIsDumpOfParsed ==
    ResultReturned =>
        /\ resp.result.canonical_text = json_dumps(resp.result.parsed)
        /\ validate_against_schema(resp.result.parsed, resp.config.effective_schema) = <<>>

\* C36 witness: the accepted output had a list longer than maxItems, which
\* the array trimmer cut: the result is not the output's own value.
C36_Witness ==
    /\ ResultReturned
    /\ resp.config.schema = SchemaList
    /\ resp.outputs[Len(resp.outputs)] = StrResult(ObjectLongList)
    /\ resp.result.canonical_text # ObjectLongList
    /\ resp.result.canonical_text = json_dumps(resp.result.parsed)

\* C36 witness: the accepted output had no diagnostics, which the
\* diagnostics fixer filled in.
C36_WitnessDiagnostics ==
    /\ ResultReturned
    /\ resp.config.schema = SchemaDiagnostics
    /\ resp.outputs[Len(resp.outputs)] = StrResult(ObjectB)
    /\ HasKey(resp.result.parsed, K_diagnostics)
    /\ HasKey(resp.result.parsed, Str_b)


\* The opening bracket a closing one answers.
OpenerOf(ch) == IF ch = "}" THEN "{" ELSE "["

\* The text with the closing brackets added that balance every unterminated
\* nesting: before a closing bracket, those of the arrays and objects opened
\* inside the one it closes; at the end, those of what is still open.
\* Brackets inside strings are plain text; NoText when the text ends inside
\* a string or a closing bracket closes nothing.
RECURSIVE Balanced(_, _, _, _, _, _)
Balanced(s, i, stack, in_string, escape, out) ==
    IF i > Len(s) THEN (IF in_string THEN NoText ELSE SomeText(out \o Closing(stack)))
    ELSE IF escape THEN Balanced(s, i + 1, stack, in_string, FALSE, Append(out, s[i]))
    ELSE IF s[i] = "\\" THEN Balanced(s, i + 1, stack, in_string, in_string, Append(out, s[i]))
    ELSE IF s[i] = "\"" THEN Balanced(s, i + 1, stack, ~in_string, FALSE, Append(out, s[i]))
    ELSE IF in_string THEN Balanced(s, i + 1, stack, in_string, FALSE, Append(out, s[i]))
    ELSE IF s[i] \in {"{", "["}
         THEN Balanced(s, i + 1, Append(stack, s[i]), FALSE, FALSE, Append(out, s[i]))
    ELSE IF s[i] \in {"}", "]"}
         THEN IF \E d \in 1..Len(stack) : stack[d] = OpenerOf(s[i])
              THEN LET d == CHOOSE d \in 1..Len(stack) :
                                /\ stack[d] = OpenerOf(s[i])
                                /\ \A e \in (d + 1)..Len(stack) : stack[e] # OpenerOf(s[i])
                   IN Balanced(s, i + 1, SubSeq(stack, 1, d - 1), FALSE, FALSE,
                               Append(out \o Closing(SubSeq(stack, d + 1, Len(stack))), s[i]))
              ELSE NoText
    ELSE Balanced(s, i + 1, stack, FALSE, FALSE, Append(out, s[i]))

\* The text ends inside a string that is not terminated.
RECURSIVE EndsInString(_, _, _, _)
EndsInString(s, i, in_string, escape) ==
    IF i > Len(s) THEN in_string
    ELSE IF escape THEN EndsInString(s, i + 1, in_string, FALSE)
    ELSE IF s[i] = "\\" THEN EndsInString(s, i + 1, in_string, in_string)
    ELSE IF s[i] = "\"" THEN EndsInString(s, i + 1, ~in_string, FALSE)
    ELSE EndsInString(s, i + 1, in_string, FALSE)

\* C37: _autoclose_json returns the text with the closing brackets added
\* that balance every unterminated array and object, an inner array left
\* open before the closing brace of an outer object included
\* ({"a": {"b": [1, 2} gives {"a": {"b": [1, 2]}}); brackets inside quoted
\* strings count as text; nothing is returned for a text that ends inside
\* an unterminated string.
C37_AutocloseBalances ==
    schemaCall.pc = "autoclosed" =>
        /\ Balanced(schemaCall.text, 1, <<>>, FALSE, FALSE, <<>>) # NoText =>
                schemaCall.repaired = Balanced(schemaCall.text, 1, <<>>, FALSE, FALSE, <<>>)
        /\ schemaCall.text = AcInnerArray =>
                schemaCall.repaired =
                    SomeText(SubSeq(AcInnerArray, 1, Len(AcInnerArray) - 1) \o <<"]", "}", "}">>)
        /\ schemaCall.text = AcQuotedBracket => schemaCall.repaired = SomeText(AcQuotedBracket)
        /\ EndsInString(schemaCall.text, 1, FALSE, FALSE) => ~schemaCall.repaired.ok


\* The compatible candidates of an endpoint, in catalog order.
CatalogCandidates(e) == candidates_of(selectCall.platform_id, selectCall.models, e)

\* The first model, in catalog order, among the best-scored candidates.
FirstBestInCatalog(e) == max_by_score(selectCall.platform_id, CatalogCandidates(e))

\* C38: when several compatible candidates of an endpoint share the highest
\* score, the default computed through the registry's endpoint index is the
\* one that comes first in catalog order, whatever their priorities.
C38_TiesByCatalogOrder ==
    selectCall.pc = "defaults" =>
        \A e \in DOMAIN selectCall.defaults :
            selectCall.defaults[e] = FirstBestInCatalog(e).id


\* Model other is a compatible model of the endpoint that an mlx model of
\* the catalog rivals: same endpoint, both listing the platform, equal
\* priority, another provider.
RivalledByMlx(other, e) ==
    /\ other.endpoint = e
    /\ is_platform_supported(other, selectCall.platform_id)
    /\ other.provider # "mlx"
    /\ \E i \in 1..Len(selectCall.models) :
          /\ selectCall.models[i].provider = "mlx"
          /\ selectCall.models[i].endpoint = e
          /\ is_platform_supported(selectCall.models[i], selectCall.platform_id)
          /\ selectCall.models[i].priority = other.priority

\* C39: on darwin-arm64 a compatible mlx model is selected over every
\* compatible model of the same endpoint with equal priority and another
\* provider, whatever the execution modes of the two: neither select
\* without a requested model nor a computed default returns a model that
\* an mlx model rivals.
C39_MlxBeatsEqualPriority ==
    selectCall.platform_id = "darwin-arm64" =>
        /\ (selectCall.pc = "selected" /\ ~Requested(selectCall.requested)
                /\ selectCall.outcome = "returned")
             => ~RivalledByMlx(selectCall.model, selectCall.endpoint)
        /\ selectCall.pc = "defaults" =>
             \A e \in DOMAIN selectCall.defaults : \A i \in 1..Len(selectCall.models) :
                selectCall.models[i].id = selectCall.defaults[e]
                    => ~RivalledByMlx(selectCall.models[i], e)

\* C39 witness: on darwin-arm64 an mlx model run in a subprocess is
\* selected over an in-process hf model of equal priority.
C39_Witness ==
    /\ selectCall.platform_id = "darwin-arm64"
    /\ selectCall.pc = "selected"
    /\ ~Requested(selectCall.requested)
    /\ selectCall.outcome = "returned"
    /\ selectCall.model.provider = "mlx"
    /\ selectCall.model.mode = "subprocess"
    /\ \E i \in 1..Len(selectCall.models) :
          /\ selectCall.models[i].provider = "hf"
          /\ selectCall.models[i].mode = "inprocess"
          /\ selectCall.models[i].priority = selectCall.model.priority
          /\ selectCall.models[i].endpoint = selectCall.endpoint
          /\ is_platform_supported(selectCall.models[i], "darwin-arm64")


\* The default of endpoint e is a registered model of that endpoint that
\* lists the platform.
DefaultIsServable(e) ==
    \E i \in 1..Len(selectCall.models) :
        /\ selectCall.models[i].id = selectCall.defaults[e]
        /\ is_platform_supported(selectCall.models[i], selectCall.platform_id)
        /\ selectCall.models[i].endpoint = e

\* C40: after boot every entry of selected_defaults maps an endpoint to a
\* registered model that lists the platform and whose api.endpoint is that
\* endpoint, also when the entry is a user-configured override; a request
\* without an explicit model, resolved through the default, never fails
\* with ModelNotFoundError.
C40_DefaultsAreServable ==
    selectCall.pc = "booted" =>
        \A e \in DOMAIN selectCall.defaults :
            /\ DefaultIsServable(e)
            /\ select_model(selectCall.platform_id, selectCall.models, selectCall.defaults,
                            e, "None").outcome = "returned"

====
